---- MODULE Spec2Model ----
(***************************************************************************)
(* A model of the analysis pipeline of the cricket anthropometric study:   *)
(* scripts/run_analysis.py (main and table2 ... table10) and the           *)
(* breakpoint figure of scripts/generate_figures.py, both reading the      *)
(* merged CSV written by scripts/merge_all_tournaments.py.                 *)
(*                                                                         *)
(* Arithmetic is exact rational arithmetic on integer heights and years;   *)
(* a division by zero follows the IEEE rules numpy applies (x/0 is an      *)
(* infinity, 0/0 is NaN, and every ordered comparison with NaN is false).  *)
(***************************************************************************)
EXTENDS Integers, Sequences, FiniteSets, TLC

VARIABLES
    csv,              \* data/processed/all_players.csv: [exists, columns, rows]
    HAS_STATSMODELS,  \* run_analysis.py:36-43, fixed at import
    HAS_PINGOUIN,     \* run_analysis.py:45-49, fixed at import
    pc,               \* position of run_analysis.main
    df_valid,         \* run_analysis.main: rows with a height
    all_results,      \* run_analysis.main: table name -> result dict
    exit_reason,      \* how run_analysis ended when it did not complete
    OUTPUT_JSON,      \* data/processed/analysis_results.json: the entries written
    t7_cat,           \* table7_breakpoint: index of the slice of the outer loop
    t7_bp,            \* table7_breakpoint: index of the candidate of the inner loop
    subset,           \* table7_breakpoint: rows of the current slice
    best_bp,          \* table7_breakpoint local
    best_f,           \* table7_breakpoint local
    best_p,           \* table7_breakpoint local
    results,          \* table7_breakpoint local: the dict being built
    chow_log,         \* history: the (slice, candidate, F) triples computed
    fpc,              \* position of generate_figures.main
    fig_df,           \* generate_figures.main: rows with a height
    f6_cat,           \* fig6_breakpoint: index of the panel of the outer loop
    f6_bp,            \* fig6_breakpoint: index of the candidate of the inner loop
    f6_subset,        \* fig6_breakpoint: rows of the current panel
    f6_best_bp,       \* fig6_breakpoint local best_bp
    f6_best_f,        \* fig6_breakpoint local best_f
    f6_best_p,        \* fig6_breakpoint local best_p
    drawn,            \* fig6_breakpoint: panel -> what was drawn
    raw,              \* data/raw: the tournament file [tournament, teams]
    population,       \* data/external/population_heights.csv: [exists, rows]
    report,           \* validate_data.main: the last run's result, NA before
    passes,           \* correct_heights: one record per run
    tools             \* history: the data-preparation scripts run, in order

vars == <<csv, HAS_STATSMODELS, HAS_PINGOUIN, pc, df_valid, all_results,
          exit_reason, OUTPUT_JSON, t7_cat, t7_bp, subset, best_bp, best_f, best_p,
          results, chow_log, fpc, fig_df, f6_cat, f6_bp, f6_subset,
          f6_best_bp, f6_best_f, f6_best_p, drawn,
          raw, population, report, passes, tools>>

(***************************************************************************)
(* Module-level configuration of the scripts.                              *)
(***************************************************************************)
CATEGORIES == <<"WK", "BAT", "FAST", "SPIN">>
NATIONS == <<"AUS", "ENG", "IND", "PAK", "WI", "NZL", "SL", "RSA">>
candidate_years == <<1996, 1999, 2003, 2007, 2010, 2012>>
BreakpointSlices == <<"BAT", "FAST", "ALL">>
Fig6Panels == <<"BAT", "FAST">>

REGION_MAP ==
    [c \in {"IND", "PAK", "SL", "AUS", "NZL", "WI", "ENG", "RSA"} |->
        CASE c \in {"IND", "PAK", "SL"} -> "South Asian"
          [] c \in {"AUS", "NZL"} -> "Oceanian"
          [] c = "WI" -> "Caribbean"
          [] c = "ENG" -> "European"
          [] OTHER -> "African"]

OUTPUT_COLUMNS ==
    {"player_id", "full_name", "country", "category", "batting_position",
     "date_of_birth", "birth_year", "age_at_tournament", "height_cm",
     "height_verified", "height_source", "pop_height_birth_cohort", "flag",
     "notes", "tournament_id", "format", "tournament_year", "era",
     "height_excess", "region"}

\* the row floor of safe_ols and of every per-slice guard
MinRows == 5
\* the slice floor of table7_breakpoint and fig6_breakpoint
MinBreakRows == 10
\* k of the Chow test: slope and intercept
ChowK == 2
\* the breakpoint fig6_breakpoint falls back to
Fig6Default == 2012

(***************************************************************************)
(* Optional values: a missing cell (NaN / None) is the empty tuple, a      *)
(* present one the 1-tuple of its value.                                   *)
(***************************************************************************)
NA == <<>>
Some(v) == <<v>>
notna(v) == v # NA
Val(v) == v[1]

\* The Python None returned by safe_ols, as a record so that it compares
\* with result records.
None == [kind |-> "None"]

(***************************************************************************)
(* Sequence helpers (pandas row selection keeps the row order).            *)
(***************************************************************************)
Filter(s, P(_)) == SelectSeq(s, P)

RECURSIVE Sum(_)
Sum(s) == IF s = <<>> THEN 0 ELSE Head(s) + Sum(Tail(s))

Range(s) == {s[i] : i \in 1..Len(s)}

\* DataFrame.dropna(subset=cols): the rows with every named cell present
dropna(data, cols) == Filter(data, LAMBDA r : \A c \in cols : notna(r[c]))

\* df[df[col] == v]: a missing cell equals nothing
where(data, col, v) == Filter(data, LAMBDA r : r[col] = Some(v))

(***************************************************************************)
(* Exact arithmetic.  A float is [k, n, d]: k = "fin" is the rational n/d  *)
(* in lowest terms with d > 0; "inf", "ninf" and "nan" are the IEEE        *)
(* specials.                                                               *)
(***************************************************************************)
Abs(a) == IF a < 0 THEN -a ELSE a

\* Euclid's algorithm (a recursive function: its arguments are values)
GcdOf[a \in Nat, b \in Nat] == IF b = 0 THEN a ELSE GcdOf[b, a % b]
Gcd(a, b) == GcdOf[a, b]

Fin(n, d) ==
    LET g == Gcd(Abs(n), Abs(d))
        sgn == IF d < 0 THEN -1 ELSE 1
    IN [k |-> "fin", n |-> sgn * (n \div g), d |-> sgn * (d \div g)]
NaN == [k |-> "nan", n |-> 0, d |-> 1]
PosInf == [k |-> "inf", n |-> 1, d |-> 1]
NegInf == [k |-> "ninf", n |-> -1, d |-> 1]
IntF(i) == [k |-> "fin", n |-> i, d |-> 1]

FAdd(a, b) ==
    LET l == (a.d \div Gcd(a.d, b.d)) * b.d
    IN Fin(a.n * (l \div a.d) + b.n * (l \div b.d), l)
FSub(a, b) == FAdd(a, [b EXCEPT !.n = -b.n])
\* a / b for finite a, b: numpy float64 division
FDiv(a, b) ==
    IF b.n = 0
    THEN IF a.n = 0 THEN NaN ELSE IF a.n > 0 THEN PosInf ELSE NegInf
    ELSE LET g1 == Gcd(Abs(a.n), Abs(b.n))
             g2 == Gcd(a.d, b.d)
         IN Fin((a.n \div g1) * (b.d \div g2), (a.d \div g2) * (b.n \div g1))
\* an/ad > bn/bd for ad, bd > 0, by the continued-fraction expansion (no
\* product is formed)
FracGtOf[an \in Int, ad \in Nat, bn \in Int, bd \in Nat] ==
    IF an \div ad # bn \div bd THEN an \div ad > bn \div bd
    ELSE IF an % ad = 0 THEN FALSE
    ELSE IF bn % bd = 0 THEN TRUE
    ELSE FracGtOf[bd, bn % bd, ad, an % ad]
FracGt(an, ad, bn, bd) == FracGtOf[an, ad, bn, bd]

\* a > b as Python evaluates it on floats
FGt(a, b) ==
    CASE a.k = "nan" \/ b.k = "nan" -> FALSE
      [] a.k = "inf" -> b.k # "inf"
      [] a.k = "ninf" -> FALSE
      [] b.k = "inf" -> FALSE
      [] b.k = "ninf" -> TRUE
      [] OTHER -> FracGt(a.n, a.d, b.n, b.d)

(***************************************************************************)
(* Ordinary least squares of height_cm on tournament_year, as              *)
(* smf.ols("height_cm ~ tournament_year", data).fit().ssr returns it.      *)
(* The sums are taken about Origin.year and Origin.height: the residuals of  *)
(* a fit with an intercept do not change under a shift of either column.   *)
(* A design of rank 1 (one distinct year) is solved by the pseudo-inverse: *)
(* the fit is the mean and ssr the sum of squares about it.                *)
(***************************************************************************)
Origin == [year |-> 2003, height |-> 180]

Xs(data) == [i \in 1..Len(data) |-> Val(data[i].tournament_year) - Origin.year]
Ys(data) == [i \in 1..Len(data) |-> Val(data[i].height_cm) - Origin.height]
Prod(a, b) == [i \in 1..Len(a) |-> a[i] * b[i]]

Sxx(data) == Len(data) * Sum(Prod(Xs(data), Xs(data))) - Sum(Xs(data)) * Sum(Xs(data))
Sxy(data) == Len(data) * Sum(Prod(Xs(data), Ys(data))) - Sum(Xs(data)) * Sum(Ys(data))
Syy(data) == Len(data) * Sum(Prod(Ys(data), Ys(data))) - Sum(Ys(data)) * Sum(Ys(data))

ssr(data) ==
    LET n == Len(data)
        a == Sxx(data)
        b == Sxy(data)
        c == Syy(data)
    IN IF a = 0 THEN Fin(c, n)
       ELSE LET g == Gcd(a, Abs(b))
            IN Fin((a \div g) * c - (b \div g) * b, n * (a \div g))

(***************************************************************************)
(* The merged table.  A row holds the columns the analyses read; every     *)
(* cell is optional.  region and height_excess are derived as              *)
(* merge_all_tournaments.main derives them.                                *)
(***************************************************************************)
\* np.where(height_cm.notna() & pop.notna(), height_cm - pop, np.nan), of
\* merge_all_tournaments.main and again of match_population.main
height_excess_unguarded(height, pop) ==
    IF notna(height) THEN Some(Val(height) - (IF notna(pop) THEN Val(pop) ELSE 0)) ELSE NA
height_excess(height, pop) ==
    IF notna(height) /\ notna(pop) THEN Some(Val(height) - Val(pop)) ELSE NA

MkRow(cat, country, year, era, height, pop, verified, flag, fmt) ==
    [category |-> Some(cat),
     country |-> Some(country),
     region |-> Some(IF country \in DOMAIN REGION_MAP
                     THEN REGION_MAP[country] ELSE "Unknown"),
     tournament_year |-> year,
     era |-> era,
     height_cm |-> height,
     pop_height_birth_cohort |-> pop,
     height_excess |-> height_excess(height, pop),
     height_verified |-> Some(verified),
     flag |-> flag,
     format |-> Some(fmt)]

(***************************************************************************)
(* The input tables explored.  BAT rows fall in cells (year, height), each *)
(* cell holding 0, MaxCell - 1 or MaxCell rows; FAST rows come in two year *)
(* groups of 0 or FastGroup rows with alternating heights; one extra BAT   *)
(* row may lack its year or its height.                                    *)
(***************************************************************************)
MaxCell == 5
FastGroup == 5

DataYears == <<1999, 2002, 2008, 2011>>
Heights == <<179, 181>>
PopHeights == [AUS |-> 175, ENG |-> 176]
EraOf(year) == IF year < 2000 THEN 1 ELSE IF year < 2007 THEN 2 ELSE 3

BatCells ==
    <<[year |-> DataYears[1], h |-> Heights[1]],
      [year |-> DataYears[1], h |-> Heights[2]],
      [year |-> DataYears[2], h |-> Heights[1]],
      [year |-> DataYears[3], h |-> Heights[2]],
      [year |-> DataYears[4], h |-> Heights[1]]>>
CellCounts == {0, MaxCell - 1, MaxCell}
FastCounts == {0, FastGroup}
Extras == {"none", "no_year", "no_height"}

BatRow(c) ==
    IF c.h = Heights[1]
    THEN MkRow("BAT", "AUS", Some(c.year), Some(EraOf(c.year)), Some(c.h),
               Some(PopHeights.AUS), TRUE, NA,
               IF c.year < 2007 THEN "ODI" ELSE "T20")
    ELSE MkRow("BAT", "IND", Some(c.year), Some(EraOf(c.year)), Some(c.h),
               NA, FALSE, NA, IF c.year < 2007 THEN "ODI" ELSE "T20")

\* row i of the FAST group of year g: heights alternate, starting low in the
\* first group and high in the second
FastRow(g, i) ==
    MkRow("FAST", "ENG", Some(DataYears[g]), Some(EraOf(DataYears[g])),
          Some(Heights[IF (i + (g \div 3)) % 2 = 1 THEN 1 ELSE 2]),
          Some(PopHeights.ENG), FALSE, Some("estimated"), "ODI")

ExtraRows(x) ==
    CASE x = "no_year" ->
            <<MkRow("BAT", "AUS", NA, NA, Some(Heights[1]),
                    Some(PopHeights.AUS), TRUE, NA, "ODI")>>
      [] x = "no_height" ->
            <<MkRow("BAT", "AUS", Some(DataYears[2]), Some(EraOf(DataYears[2])),
                    NA, Some(PopHeights.AUS), FALSE, NA, "ODI")>>
      [] OTHER -> <<>>

RECURSIVE Flatten(_)
Flatten(ss) == IF ss = <<>> THEN <<>> ELSE Head(ss) \o Flatten(Tail(ss))

Table(cnt, f1, f3, x) ==
    Flatten([i \in 1..Len(BatCells) |-> [j \in 1..cnt[i] |-> BatRow(BatCells[i])]])
    \o [i \in 1..f1 |-> FastRow(1, i)]
    \o [i \in 1..f3 |-> FastRow(3, i)]
    \o ExtraRows(x)

\* every table of the family
Tables ==
    {Table(cnt, f1, f3, x) :
        cnt \in [1..Len(BatCells) -> CellCounts],
        f1 \in FastCounts, f3 \in FastCounts, x \in Extras}
\* the tables tried with a column dropped, a library absent or no file
FewTables ==
    {Table(cnt, 0, 0, "none") : cnt \in [1..Len(BatCells) -> {0, MaxCell}]}
\* the columns a malformed file may lack
DropColumns == {"height_cm", "region", "flag"}

(***************************************************************************)
(* run_analysis.py: helpers.                                               *)
(***************************************************************************)
F_YEAR == "height_cm ~ tournament_year"
F_YEAR_POP == "height_cm ~ tournament_year + pop_height_birth_cohort"

\* the column names safe_ols splits out of a formula
FormulaColumns(formula) ==
    IF formula = F_YEAR THEN {"height_cm", "tournament_year"}
    ELSE {"height_cm", "tournament_year", "pop_height_birth_cohort"}

\* safe_ols: None without statsmodels or with fewer than MinRows complete
\* rows, else the summary dict of the fit (its numbers are left out here:
\* n and the coefficient names are what the callers branch on).
safe_ols_few_rows(formula, data) ==
    IF ~HAS_STATSMODELS THEN None
    ELSE IF Len(data) < MinRows THEN None
         ELSE [kind |-> "ols", formula |-> formula,
               n |-> Len(dropna(data, FormulaColumns(formula))),
               coefficients |-> {"Intercept"} \cup
                                (FormulaColumns(formula) \ {"height_cm"})]
safe_ols(formula, data) ==
    IF ~HAS_STATSMODELS THEN None
    ELSE LET data_clean == dropna(data, FormulaColumns(formula))
         IN IF Len(data_clean) < MinRows THEN None
            ELSE [kind |-> "ols", formula |-> formula, n |-> Len(data_clean),
                  coefficients |-> {"Intercept"} \cup
                                   (FormulaColumns(formula) \ {"height_cm"})]

\* the distinct present values of a column (groupby keys, unique, nunique)
unique(data, col) == {Val(data[i][col]) : i \in {j \in 1..Len(data) : notna(data[j][col])}}

\* the empty dict
EmptyDict == [x \in {} |-> None]

(***************************************************************************)
(* run_analysis.py: the tables that run in one step.  A result dict is a   *)
(* function from its keys; a key the code never assigns is not in its      *)
(* domain.                                                                 *)
(***************************************************************************)
\* groupby(col)[...].agg(...).to_dict(): the group keys, with the row count
\* of each (the other statistics have the same keys)
GroupCounts(data, col, of) ==
    [g \in unique(data, col) |->
        Len(dropna(where(data, col, g), {of}))]

table2_descriptive(df) ==
    LET base ==
            [key \in {"by_category", "by_era", "overall"} |->
                CASE key = "by_category" -> [count |-> GroupCounts(df, "category", "height_cm")]
                  [] key = "by_era" -> [count |-> GroupCounts(df, "era", "height_cm")]
                  [] OTHER -> [n |-> Len(df),
                               n_verified |-> Len(where(df, "height_verified", TRUE))]]
    IN IF \E i \in 1..Len(df) : notna(df[i].height_excess)
       THEN base @@ ("excess_by_category" :>
                        [count |-> GroupCounts(df, "category", "height_excess")])
       ELSE base

table3_unadjusted_regression(df) ==
    LET sub(cat) == dropna(where(df, "category", cat), {"height_cm", "tournament_year"})
        subset_all == dropna(df, {"height_cm", "tournament_year"})
        cats == {cat \in Range(CATEGORIES) : Len(sub(cat)) >= MinRows}
        keys == cats \cup (IF Len(subset_all) >= MinRows THEN {"ALL"} ELSE {})
    IN [key \in keys |->
            IF key = "ALL" THEN safe_ols(F_YEAR, subset_all)
            ELSE safe_ols(F_YEAR, sub(key))]

table4_adjusted_regression(df) ==
    LET subset_all == dropna(df, {"height_cm", "tournament_year", "pop_height_birth_cohort"})
        sub(cat) == where(subset_all, "category", cat)
        cats == {cat \in Range(CATEGORIES) : Len(sub(cat)) >= MinRows}
    IN IF Len(subset_all) < MinRows THEN EmptyDict
       ELSE [key \in cats \cup {"ALL"} |->
                IF key = "ALL" THEN safe_ols(F_YEAR_POP, subset_all)
                ELSE safe_ols(F_YEAR_POP, sub(key))]

table5_country_regression(df) ==
    LET bat == dropna(where(df, "category", "BAT"), {"height_cm", "tournament_year"})
        sub(nation) == where(bat, "country", nation)
    IN [nation \in {x \in Range(NATIONS) : Len(sub(x)) >= MinRows} |->
            safe_ols(F_YEAR, sub(nation))]

\* the one-way test statistics are left out here; the keys and the regions
\* that enter the test are kept
\* the test over every non-empty region
table6_regional_anova_nonempty(df) ==
    LET sub == dropna(df, {"height_cm", "region"})
        regions == unique(sub, "region")
        keys == IF Cardinality(regions) >= 2
                THEN {"overall_anova", "region_descriptive"} \cup
                     (IF HAS_PINGOUIN THEN {} ELSE {"pairwise"})
                ELSE {}
    IN [key \in keys |->
            CASE key = "overall_anova" -> [regions |-> regions]
              [] key = "region_descriptive" -> [count |-> GroupCounts(sub, "region", "height_cm")]
              [] OTHER -> {pair \in SUBSET regions : Cardinality(pair) = 2}]
table6_regional_anova(df) ==
    LET sub == dropna(df, {"height_cm", "region"})
        regions == unique(sub, "region")
        valid_regions == {r \in regions : Len(where(sub, "region", r)) >= 2}
        keys == IF Cardinality(valid_regions) >= 2
                THEN {"overall_anova", "region_descriptive"} \cup
                     (IF HAS_PINGOUIN THEN {} ELSE {"pairwise"})
                ELSE {}
    IN [key \in keys |->
            CASE key = "overall_anova" -> [regions |-> valid_regions]
              [] key = "region_descriptive" -> [count |-> GroupCounts(sub, "region", "height_cm")]
              [] OTHER -> {pair \in SUBSET valid_regions : Cardinality(pair) = 2}]

\* raised: whether the statsmodels fit or anova_lm raised (caught at 504)
table8_two_way_anova(df, raised) ==
    LET sub == dropna(df, {"height_cm", "category", "era"})
    IN IF Len(sub) < MinBreakRows THEN EmptyDict
       ELSE IF HAS_STATSMODELS /\ ~raised
            THEN [key \in {"anova_table"} |->
                    {"C(category)", "C(era)", "C(category):C(era)", "Residual"}]
            ELSE EmptyDict

\* outcome: what MixedLM did: "converged", "not_converged", "raised_model1"
\* or "raised_model2" (every exception is caught at 605)
table9_mixed_effects(df, outcome) ==
    LET sub == dropna(df, {"height_cm", "tournament_year", "country"})
        subset_m1 == dropna(sub, {"height_cm", "tournament_year", "category"})
        subset_m2 == dropna(sub, {"height_cm", "tournament_year", "pop_height_birth_cohort"})
        two == Len(subset_m2) >= MinBreakRows /\ Cardinality(unique(subset_m2, "country")) >= 2
        keys == IF outcome = "raised_model1" THEN {}
                ELSE IF two /\ outcome # "raised_model2" THEN {"model1", "model2"}
                ELSE {"model1"}
    IN IF ~HAS_STATSMODELS THEN EmptyDict
       ELSE IF Len(sub) < MinBreakRows THEN EmptyDict
       ELSE IF Cardinality(unique(sub, "country")) < 2 THEN EmptyDict
       ELSE [key \in keys |->
                IF key = "model1"
                THEN [converged |-> outcome # "not_converged", n |-> Len(subset_m1),
                      n_groups |-> 1]
                ELSE [converged |-> outcome # "not_converged", n |-> Len(subset_m2)]]

\* the statistics of sub-analyses 5 and 6 are left out here; the keys and
\* the group sizes are kept
table10_sensitivity(df) ==
    LET verified == where(df, "height_verified", TRUE)
        unflagged == Filter(df, LAMBDA r : r.flag = NA \/ r.flag = Some(""))
        odi == where(df, "format", "ODI")
        t20 == where(df, "format", "T20")
        recent == dropna(Filter(df, LAMBDA r : notna(r.tournament_year)
                                               /\ Val(r.tournament_year) >= 2007),
                         {"height_cm"})
        odi_heights == where(recent, "format", "ODI")
        t20_heights == where(recent, "format", "T20")
        fast == dropna(where(df, "category", "FAST"), {"height_cm"})
        bat == dropna(where(df, "category", "BAT"), {"height_cm"})
        keys ==
            (IF Len(verified) > 0 /\ safe_ols(F_YEAR, verified) # None
             THEN {"verified_only"} ELSE {})
            \cup (IF Len(unflagged) > 0 /\ safe_ols(F_YEAR, unflagged) # None
                  THEN {"unflagged_only"} ELSE {})
            \cup (IF Len(odi) >= MinRows /\ safe_ols(F_YEAR, odi) # None
                  THEN {"odi_only"} ELSE {})
            \cup (IF Len(t20) >= MinRows /\ safe_ols(F_YEAR, t20) # None
                  THEN {"t20_only"} ELSE {})
            \cup (IF Len(recent) >= MinRows /\ Cardinality(unique(recent, "format")) >= 2
                     /\ Len(odi_heights) >= 3 /\ Len(t20_heights) >= 3
                  THEN {"format_comparison"} ELSE {})
            \cup (IF Len(fast) >= 3 /\ Len(bat) >= 3 THEN {"fast_vs_bat"} ELSE {})
    IN [key \in keys |->
            CASE key = "verified_only" -> safe_ols(F_YEAR, verified)
              [] key = "unflagged_only" -> safe_ols(F_YEAR, unflagged)
              [] key = "odi_only" -> safe_ols(F_YEAR, odi)
              [] key = "t20_only" -> safe_ols(F_YEAR, t20)
              [] key = "format_comparison" ->
                    [odi_n |-> Len(odi_heights), t20_n |-> Len(t20_heights)]
              [] OTHER -> [fast_n |-> Len(fast), bat_n |-> Len(bat)]]

(***************************************************************************)
(* The breakpoint search shared by table7_breakpoint and fig6_breakpoint.  *)
(***************************************************************************)
\* subset[subset["tournament_year"] <= bp] and subset[... > bp]
pre_of(data, bp) == Filter(data, LAMBDA r : Val(r.tournament_year) <= bp)
post_of_ge(data, bp) == Filter(data, LAMBDA r : Val(r.tournament_year) >= bp)
post_of(data, bp) == Filter(data, LAMBDA r : Val(r.tournament_year) > bp)

\* the guard that skips a candidate
too_small_both(pre, post) == Len(pre) < MinRows /\ Len(post) < MinRows
too_small(pre, post) == Len(pre) < MinRows \/ Len(post) < MinRows

\* the guard that skips a slice
slice_too_small_wide(data) == Len(data) < MinBreakRows + 1
slice_too_small(data) == Len(data) < MinBreakRows

\* the body of the try block: the Chow F of one candidate, or the exception
\* statsmodels raises on an empty segment (reached only past the guard)
chow(data, bp) ==
    LET pre == pre_of(data, bp)
        post == post_of(data, bp)
        k == ChowK
        n == Len(data)
    IN IF Len(pre) = 0 \/ Len(post) = 0 THEN [raised |-> TRUE, f_stat |-> NaN]
       ELSE LET rss_full == ssr(data)
                rss_restricted == FAdd(ssr(pre), ssr(post))
            IN [raised |-> FALSE,
                f_stat |-> FDiv(FDiv(FSub(rss_full, rss_restricted), IntF(k)),
                                FDiv(rss_restricted, IntF(n - 2 * k)))]

\* 1 - stats.f.cdf(f_stat, k, n - 2k), kept symbolic: the upper tail of the
\* F(k, dfd) distribution at f_stat.  1.0 is the upper tail at 0.
p_value_of(f_stat, n) == [tail_at |-> f_stat, dfd |-> n - 2 * ChowK]
P_ONE == [tail_at |-> IntF(0), dfd |-> 0]

\* f_stat > best_f
better_or_equal(f_stat, bf) == FGt(f_stat, bf) \/ f_stat = bf
better(f_stat, bf) == FGt(f_stat, bf)

\* best_bp = None; best_f = -1; best_p = 1.0, whatever the locals held
fresh_best_keep(old) == old
fresh_best(old) == [bp |-> NA, f |-> IntF(-1), p |-> P_ONE]

\* one pass of the inner loop over the locals b = [bp, f, p]
candidate_step(data, bp, b) ==
    LET pre == pre_of(data, bp)
        post == post_of(data, bp)
        c == chow(data, bp)
    IN IF too_small(pre, post) THEN b
       ELSE IF c.raised THEN b
       ELSE IF better(c.f_stat, b.f)
            THEN [bp |-> Some(bp), f |-> c.f_stat, p |-> p_value_of(c.f_stat, Len(data))]
            ELSE b

\* whether the pass computed an F (and printed it)
candidate_evaluated(data, bp) ==
    ~too_small(pre_of(data, bp), post_of(data, bp)) /\ ~chow(data, bp).raised

\* the truth value Python gives best_bp
truthy(bp) == notna(bp) /\ Val(bp) # 0

(***************************************************************************)
(* run_analysis.table7_breakpoint, one step per loop iteration.            *)
(***************************************************************************)
t7_slice_rows(df, cat) ==
    IF cat = "ALL" THEN dropna(df, {"height_cm", "tournament_year"})
    ELSE dropna(where(df, "category", cat), {"height_cm", "tournament_year"})

\* round(float(x), 4) of a float: the nearest multiple of 1/10000 (halves
\* away from zero); an infinity or NaN is returned as it is
decimalsOf[r \in Nat, d \in Nat, places \in Nat] ==
    IF places = 0 THEN [q |-> 0, r |-> r]
    ELSE LET p == decimalsOf[r, d, places - 1]
         IN [q |-> p.q * 10 + ((p.r * 10) \div d), r |-> (p.r * 10) % d]
decimals(r, d, places) == decimalsOf[r, d, places]
round4(x) ==
    IF x.k # "fin" THEN x
    ELSE LET a == Abs(x.n)
             dec == decimals(a % x.d, x.d, 4)
             t == (a \div x.d) * 10000 + dec.q + (IF 2 * dec.r >= x.d THEN 1 ELSE 0)
         IN Fin(IF x.n < 0 THEN -t ELSE t, 10000)

\* an entry that stops at the four keys of the selection
t7_entry_selection_only(b, pre, post) ==
    [key \in {"best_breakpoint", "f_statistic", "p_value", "significant"} |->
        CASE key = "best_breakpoint" -> [year |-> Val(b.bp)]
          [] key = "f_statistic" -> round4(b.f)
          [] key = "p_value" -> b.p
          [] OTHER -> [below_005 |-> b.p]]

\* the entry a reported slice gets: the four keys of lines 440-445 and a
\* slope key for each segment fit that returned a dict (the slope itself is
\* left out here: the segment's row count stands for it).  significant is
\* best_p < 0.05, kept symbolic like best_p.
t7_entry(b, pre, post) ==
    LET res_pre == safe_ols(F_YEAR, pre)
        res_post == safe_ols(F_YEAR, post)
        keys == {"best_breakpoint", "f_statistic", "p_value", "significant"}
                \cup (IF res_pre # None THEN {"pre_slope"} ELSE {})
                \cup (IF res_post # None THEN {"post_slope"} ELSE {})
    IN [key \in keys |->
            CASE key = "best_breakpoint" -> [year |-> Val(b.bp)]
              [] key = "f_statistic" -> round4(b.f)
              [] key = "p_value" -> b.p
              [] key = "significant" -> [below_005 |-> b.p]
              [] key = "pre_slope" -> [fit_n |-> res_pre.n]
              [] OTHER -> [fit_n |-> res_post.n]]

A_UNCHANGED_FIG == UNCHANGED <<fpc, fig_df, f6_cat, f6_bp, f6_subset,
                               f6_best_bp, f6_best_f, f6_best_p, drawn>>
A_UNCHANGED_ENV == UNCHANGED <<csv, HAS_STATSMODELS, HAS_PINGOUIN,
                               raw, population, report, passes, tools>>

\* leave the outer loop body: the next slice, or return the dict to main
T7_Advance(res) ==
    /\ results' = res
    /\ IF t7_cat < Len(BreakpointSlices)
       THEN /\ t7_cat' = t7_cat + 1
            /\ pc' = "t7_slice"
            /\ UNCHANGED all_results
       ELSE /\ t7_cat' = t7_cat
            /\ pc' = "table8"
            /\ all_results' = all_results @@ ("table7_breakpoint" :> res)

Table7Enter ==
    /\ pc = "table7" /\ fpc = "Idle"
    /\ IF ~HAS_STATSMODELS
       THEN /\ pc' = "table8"
            /\ all_results' = all_results @@ ("table7_breakpoint" :> EmptyDict)
            /\ UNCHANGED <<t7_cat, results>>
       ELSE /\ pc' = "t7_slice"
            /\ t7_cat' = 1
            /\ results' = EmptyDict
            /\ UNCHANGED all_results
    /\ UNCHANGED <<OUTPUT_JSON, df_valid, exit_reason, t7_bp, subset, best_bp, best_f, best_p, chow_log>>
    /\ A_UNCHANGED_FIG /\ A_UNCHANGED_ENV

T7_BeginSlice ==
    /\ pc = "t7_slice"
    /\ LET rows == t7_slice_rows(df_valid, BreakpointSlices[t7_cat])
           b == fresh_best([bp |-> best_bp, f |-> best_f, p |-> best_p])
       IN /\ subset' = rows
          /\ IF slice_too_small(rows)
             THEN /\ T7_Advance(results)
                  /\ UNCHANGED <<t7_bp, best_bp, best_f, best_p>>
             ELSE /\ best_bp' = b.bp /\ best_f' = b.f /\ best_p' = b.p
                  /\ t7_bp' = 1
                  /\ pc' = "t7_cand"
                  /\ UNCHANGED <<t7_cat, results, all_results>>
    /\ UNCHANGED <<OUTPUT_JSON, df_valid, exit_reason, chow_log>>
    /\ A_UNCHANGED_FIG /\ A_UNCHANGED_ENV

T7_Candidate ==
    /\ pc = "t7_cand"
    /\ LET bp == candidate_years[t7_bp]
           b == candidate_step(subset, bp, [bp |-> best_bp, f |-> best_f, p |-> best_p])
       IN /\ best_bp' = b.bp /\ best_f' = b.f /\ best_p' = b.p
          /\ chow_log' = IF candidate_evaluated(subset, bp)
                         THEN chow_log \cup {[cat |-> BreakpointSlices[t7_cat], bp |-> bp,
                                              f_stat |-> chow(subset, bp).f_stat]}
                         ELSE chow_log
    /\ IF t7_bp < Len(candidate_years)
       THEN t7_bp' = t7_bp + 1 /\ pc' = "t7_cand"
       ELSE t7_bp' = t7_bp /\ pc' = "t7_report"
    /\ UNCHANGED <<OUTPUT_JSON, df_valid, exit_reason, all_results, t7_cat, subset, results>>
    /\ A_UNCHANGED_FIG /\ A_UNCHANGED_ENV

T7_Report ==
    /\ pc = "t7_report"
    /\ LET cat == BreakpointSlices[t7_cat]
           b == [bp |-> best_bp, f |-> best_f, p |-> best_p]
       IN IF truthy(best_bp)
          THEN T7_Advance(results @@ (cat :> t7_entry(b, pre_of(subset, Val(best_bp)),
                                                     post_of(subset, Val(best_bp)))))
          ELSE T7_Advance(results)
    /\ UNCHANGED <<OUTPUT_JSON, df_valid, exit_reason, t7_bp, subset, best_bp, best_f, best_p, chow_log>>
    /\ A_UNCHANGED_FIG /\ A_UNCHANGED_ENV

(***************************************************************************)
(* generate_figures.fig6_breakpoint, one step per loop iteration.          *)
(***************************************************************************)
A_UNCHANGED_RUN == UNCHANGED <<pc, df_valid, all_results, exit_reason, OUTPUT_JSON, t7_cat, t7_bp,
                               subset, best_bp, best_f, best_p, results, chow_log>>

f6_slice_rows(df, cat) == dropna(where(df, "category", cat), {"height_cm", "tournament_year"})

\* what a panel shows: the breakpoint line and label, and the segments that
\* get a fitted line (at least 3 rows)
f6_panel(bp, f, p, data) ==
    [kind |-> "breakpoint", best_bp |-> bp, best_f |-> f, best_p |-> p,
     segments |-> (IF Len(pre_of(data, bp)) >= 3 THEN {"Pre"} ELSE {})
                  \cup (IF Len(post_of(data, bp)) >= 3 THEN {"Post"} ELSE {})]

\* leave the outer loop body: the next panel, or return to main
F6_Advance ==
    IF f6_cat < Len(Fig6Panels)
    THEN f6_cat' = f6_cat + 1 /\ fpc' = "f6_slice"
    ELSE f6_cat' = f6_cat /\ fpc' = "Done"

\* generate_figures.main up to the call of fig6_breakpoint (figures 1 to 5
\* draw from the same rows and are not modelled)
FigLoad ==
    /\ fpc = "Idle" /\ pc = "Idle"
    /\ IF ~csv.exists \/ "height_cm" \notin csv.columns
       THEN fpc' = "Failed" /\ UNCHANGED <<fig_df, f6_cat>>
       ELSE LET valid == dropna(csv.rows, {"height_cm"})
            IN /\ fig_df' = valid
               /\ IF Len(valid) = 0
                  THEN fpc' = "Failed" /\ UNCHANGED f6_cat
                  ELSE fpc' = "f6_slice" /\ f6_cat' = 1
    /\ UNCHANGED <<f6_bp, f6_subset, f6_best_bp, f6_best_f, f6_best_p, drawn>>
    /\ A_UNCHANGED_RUN /\ A_UNCHANGED_ENV

F6_BeginSlice ==
    /\ fpc = "f6_slice"
    /\ LET rows == f6_slice_rows(fig_df, Fig6Panels[f6_cat])
           b == fresh_best([bp |-> f6_best_bp, f |-> f6_best_f, p |-> f6_best_p])
       IN /\ f6_subset' = rows
          /\ IF slice_too_small(rows)
             THEN /\ drawn' = drawn @@ (Fig6Panels[f6_cat] :> [kind |-> "insufficient"])
                  /\ F6_Advance
                  /\ UNCHANGED <<f6_bp, f6_best_bp, f6_best_f, f6_best_p>>
             ELSE /\ f6_best_bp' = b.bp /\ f6_best_f' = b.f /\ f6_best_p' = b.p
                  /\ IF HAS_STATSMODELS
                     THEN f6_bp' = 1 /\ fpc' = "f6_cand"
                     ELSE f6_bp' = f6_bp /\ fpc' = "f6_draw"
                  /\ UNCHANGED <<f6_cat, drawn>>
    /\ UNCHANGED fig_df
    /\ A_UNCHANGED_RUN /\ A_UNCHANGED_ENV

F6_Candidate ==
    /\ fpc = "f6_cand"
    /\ LET bp == candidate_years[f6_bp]
           b == candidate_step(f6_subset, bp,
                               [bp |-> f6_best_bp, f |-> f6_best_f, p |-> f6_best_p])
       IN f6_best_bp' = b.bp /\ f6_best_f' = b.f /\ f6_best_p' = b.p
    /\ IF f6_bp < Len(candidate_years)
       THEN f6_bp' = f6_bp + 1 /\ fpc' = "f6_cand"
       ELSE f6_bp' = f6_bp /\ fpc' = "f6_draw"
    /\ UNCHANGED <<fig_df, f6_cat, f6_subset, drawn>>
    /\ A_UNCHANGED_RUN /\ A_UNCHANGED_ENV

F6_Draw ==
    /\ fpc = "f6_draw"
    /\ LET bp == IF f6_best_bp = NA THEN Fig6Default ELSE Val(f6_best_bp)
       IN /\ f6_best_bp' = Some(bp)
          /\ drawn' = drawn @@ (Fig6Panels[f6_cat] :>
                                  f6_panel(bp, f6_best_f, f6_best_p, f6_subset))
    /\ F6_Advance
    /\ UNCHANGED <<fig_df, f6_bp, f6_subset, f6_best_f, f6_best_p>>
    /\ A_UNCHANGED_RUN /\ A_UNCHANGED_ENV

(***************************************************************************)
(* run_analysis.main.                                                      *)
(***************************************************************************)
A_UNCHANGED_T7 == UNCHANGED <<t7_cat, t7_bp, subset, best_bp, best_f, best_p,
                              results, chow_log>>

\* the columns whose absence raises KeyError in a stage
StageColumns ==
    [table2 |-> {"category", "height_cm", "era", "height_excess", "player_id", "tournament_id"},
     table3 |-> {"category", "height_cm", "tournament_year"},
     table4 |-> {"category", "height_cm", "tournament_year", "pop_height_birth_cohort"},
     table5 |-> {"category", "country", "height_cm", "tournament_year"},
     table6 |-> {"category", "region", "height_cm"},
     table7 |-> {"category", "height_cm", "tournament_year"},
     table8 |-> {"category", "era", "height_cm"},
     table9 |-> {"country", "height_cm", "tournament_year"},
     table10 |-> {"height_verified", "flag", "format", "tournament_year", "category",
                  "height_cm"}]

\* the exit at 713-716 or 732-734, or the KeyError of df["height_cm"]
Load ==
    /\ pc = "Idle" /\ fpc = "Idle"
    /\ IF ~csv.exists
       THEN pc' = "Failed" /\ exit_reason' = "no_csv" /\ UNCHANGED df_valid
       ELSE IF "height_cm" \notin csv.columns
       THEN pc' = "Failed" /\ exit_reason' = "KeyError" /\ UNCHANGED df_valid
       ELSE LET valid == dropna(csv.rows, {"height_cm"})
            IN /\ df_valid' = valid
               /\ IF Len(valid) = 0
                  THEN pc' = "Failed" /\ exit_reason' = "no_valid_height"
                  ELSE pc' = "table2" /\ UNCHANGED exit_reason
    /\ UNCHANGED <<all_results, OUTPUT_JSON>>
    /\ A_UNCHANGED_T7 /\ A_UNCHANGED_FIG /\ A_UNCHANGED_ENV

\* a stage that aborts the run when it has nothing to report
Stage_abort_on_empty(at, name, result, next) ==
    /\ pc = at
    /\ IF StageColumns[at] \subseteq csv.columns /\ DOMAIN result # {}
       THEN /\ all_results' = all_results @@ (name :> result)
            /\ pc' = next
            /\ UNCHANGED exit_reason
       ELSE /\ pc' = "Failed"
            /\ exit_reason' = "KeyError"
            /\ UNCHANGED all_results
    /\ UNCHANGED <<df_valid, OUTPUT_JSON>>
    /\ A_UNCHANGED_T7 /\ A_UNCHANGED_FIG /\ A_UNCHANGED_ENV

\* a stage that drops the rows it cannot use from the frame it was given
Stage_dropna_in_place(at, name, result, next) ==
    /\ pc = at
    /\ IF StageColumns[at] \subseteq csv.columns
       THEN /\ all_results' = all_results @@ (name :> result)
            /\ pc' = next
            /\ UNCHANGED exit_reason
       ELSE /\ pc' = "Failed"
            /\ exit_reason' = "KeyError"
            /\ UNCHANGED all_results
    /\ df_valid' = dropna(df_valid, {"height_cm", "category", "era"})
    /\ UNCHANGED OUTPUT_JSON
    /\ A_UNCHANGED_T7 /\ A_UNCHANGED_FIG /\ A_UNCHANGED_ENV

\* one stage of lines 741-749: all_results[name] = table(df_valid), or the
\* KeyError a missing column raises inside the stage
Stage(at, name, result, next) ==
    /\ pc = at
    /\ IF StageColumns[at] \subseteq csv.columns
       THEN /\ all_results' = all_results @@ (name :> result)
            /\ pc' = next
            /\ UNCHANGED exit_reason
       ELSE /\ pc' = "Failed"
            /\ exit_reason' = "KeyError"
            /\ UNCHANGED all_results
    /\ UNCHANGED <<df_valid, OUTPUT_JSON>>
    /\ A_UNCHANGED_T7 /\ A_UNCHANGED_FIG /\ A_UNCHANGED_ENV

Table2 == Stage("table2", "table2_descriptive", table2_descriptive(df_valid), "table3")
Table3 == Stage("table3", "table3_unadjusted", table3_unadjusted_regression(df_valid), "table4")
Table4 == Stage("table4", "table4_adjusted", table4_adjusted_regression(df_valid), "table5")
Table5 == Stage("table5", "table5_country", table5_country_regression(df_valid), "table6")
Table6 == Stage("table6", "table6_regional", table6_regional_anova(df_valid), "table7")
Table8 ==
    \E raised \in BOOLEAN :
        Stage("table8", "table8_two_way_anova", table8_two_way_anova(df_valid, raised), "table9")
Table9 ==
    \E outcome \in {"converged", "not_converged", "raised_model1", "raised_model2"} :
        Stage("table9", "table9_mixed_effects", table9_mixed_effects(df_valid, outcome), "table10")
Table10 == Stage("table10", "table10_sensitivity", table10_sensitivity(df_valid), "save")

(***************************************************************************)
(* The results document and its serialization.  The document is kept as    *)
(* the set of its leaves: [path, leaf], path the sequence of dict keys     *)
(* from the root and leaf the value found there.  A key or a value is      *)
(* [type, repr]: the Python type and the text str() gives; in the written  *)
(* file a key is the text of the member name and a value a token.  The     *)
(* leaves kept are the keys, counts and flags of each table and the        *)
(* breakpoint's F; the other statistics (p values, slopes, the two-way     *)
(* table) are floats like it, and the lists are left out.                  *)
(***************************************************************************)
Digit == <<"0", "1", "2", "3", "4", "5", "6", "7", "8", "9">>
RECURSIVE str_nat(_)
str_nat(n) == IF n < 10 THEN Digit[n + 1] ELSE str_nat(n \div 10) \o Digit[(n % 10) + 1]
str_int(i) == IF i < 0 THEN "-" \o str_nat(-i) ELSE str_nat(i)
\* the last `places` digits of q, zero-padded, and the same without the
\* trailing zeros (one digit is always kept)
RECURSIVE pad(_, _)
pad(q, places) == IF places = 0 THEN "" ELSE pad(q \div 10, places - 1) \o Digit[(q % 10) + 1]
RECURSIVE frac(_, _)
frac(q, places) ==
    IF places > 1 /\ q % 10 = 0 THEN frac(q \div 10, places - 1) ELSE pad(q, places)
\* str() of a float that round(x, 4) returned
str_float(x) ==
    CASE x.k = "inf" -> "inf"
      [] x.k = "ninf" -> "-inf"
      [] x.k = "nan" -> "nan"
      [] OTHER ->
            LET a == Abs(x.n)
            IN (IF x.n < 0 THEN "-" ELSE "") \o str_nat(a \div x.d) \o "."
               \o frac(decimals(a % x.d, x.d, 4).q, 4)

py_int(i) == [type |-> "int", repr |-> str_int(i)]
py_float(x) == [type |-> "float", repr |-> str_float(x)]
py_str(t) == [type |-> "str", repr |-> t]
py_bool(b) == [type |-> "bool", repr |-> IF b THEN "True" ELSE "False"]
py_None == [type |-> "NoneType", repr |-> "None"]
np_bool(b) == [type |-> "numpy.bool_", repr |-> IF b THEN "True" ELSE "False"]

Leaf(path, v) == [path |-> path, leaf |-> v]
Under(key, entries) == {Leaf(<<key>> \o e.path, e.leaf) : e \in entries}

\* the keys groupby gives by_era: ints, or floats when the era column of the
\* file has a missing cell (pd.to_numeric leaves it float64)
era_key(e) ==
    IF \E i \in 1..Len(csv.rows) : csv.rows[i].era = NA
    THEN [type |-> "float", repr |-> str_int(e) \o ".0"]
    ELSE py_int(e)

\* {group: count} of a describe() column
doc_counts(counts, key(_)) == {Leaf(<<key(g)>>, py_int(counts[g])) : g \in DOMAIN counts}
\* a safe_ols result: None, or the dict
doc_ols(res) ==
    IF res = None THEN {Leaf(<<>>, py_None)}
    ELSE {Leaf(<<py_str("n")>>, py_int(res.n)),
          Leaf(<<py_str("formula")>>, py_str(res.formula))}
doc_fits(d) == UNION {Under(py_str(k), doc_ols(d[k])) : k \in DOMAIN d}

doc_table2(d) ==
    UNION {Under(py_str(k),
                 IF k = "overall"
                 THEN {Leaf(<<py_str("n")>>, py_int(d[k].n)),
                       Leaf(<<py_str("n_verified")>>, py_int(d[k].n_verified))}
                 ELSE Under(py_str("count"),
                            IF k = "by_era" THEN doc_counts(d[k].count, era_key)
                            ELSE doc_counts(d[k].count, py_str))) : k \in DOMAIN d}
doc_table6(d) ==
    IF "region_descriptive" \in DOMAIN d
    THEN Under(py_str("region_descriptive"),
               Under(py_str("count"), doc_counts(d.region_descriptive.count, py_str)))
    ELSE {}
\* sig[cat]: the truth value of best_p < 0.05, a numpy.bool_
doc_table7(d, sig) ==
    UNION {Under(py_str(cat),
                 {Leaf(<<py_str("best_breakpoint")>>, py_int(d[cat].best_breakpoint.year)),
                  Leaf(<<py_str("f_statistic")>>, py_float(d[cat].f_statistic)),
                  Leaf(<<py_str("significant")>>, np_bool(sig[cat]))}) : cat \in DOMAIN d}
doc_table9(d) ==
    UNION {Under(py_str(m),
                 {Leaf(<<py_str("converged")>>, py_bool(d[m].converged)),
                  Leaf(<<py_str("n")>>, py_int(d[m].n))}
                 \cup (IF "n_groups" \in DOMAIN d[m]
                       THEN {Leaf(<<py_str("n_groups")>>, py_int(d[m].n_groups))}
                       ELSE {})) : m \in DOMAIN d}
doc_table10(d) ==
    UNION {Under(py_str(k),
                 CASE k = "format_comparison" ->
                        {Leaf(<<py_str("odi_n")>>, py_int(d[k].odi_n)),
                         Leaf(<<py_str("t20_n")>>, py_int(d[k].t20_n))}
                   [] k = "fast_vs_bat" -> {}
                   [] OTHER -> doc_ols(d[k])) : k \in DOMAIN d}

\* all_results as main holds it before json.dump: the breakpoint table, whose
\* flags depend on sig, and the rest
doc_breakpoint(res, sig) ==
    Under(py_str("table7_breakpoint"), doc_table7(res.table7_breakpoint, sig))
doc_rest(res) ==
    Under(py_str("table2_descriptive"), doc_table2(res.table2_descriptive))
    \cup Under(py_str("table3_unadjusted"), doc_fits(res.table3_unadjusted))
    \cup Under(py_str("table4_adjusted"), doc_fits(res.table4_adjusted))
    \cup Under(py_str("table5_country"), doc_fits(res.table5_country))
    \cup Under(py_str("table6_regional"), doc_table6(res.table6_regional))
    \cup Under(py_str("table9_mixed_effects"), doc_table9(res.table9_mixed_effects))
    \cup Under(py_str("table10_sensitivity"), doc_table10(res.table10_sensitivity))
document(res, sig) == doc_rest(res) \cup doc_breakpoint(res, sig)

\* convert_numpy: the plain value of a numpy scalar, anything else as it is
convert_numpy(v) ==
    CASE v.type = "numpy.int64" -> [type |-> "int", repr |-> v.repr]
      [] v.type = "numpy.float64" -> [type |-> "float", repr |-> v.repr]
      [] v.type = "numpy.bool_" -> [type |-> "bool", repr |-> v.repr]
      [] OTHER -> v
\* the hook json.dump(..., cls, default) calls on a value it cannot encode:
\* JSONEncoder.__init__ stores a default argument on the instance, where it
\* hides the default method of the class
encoder_hook(cls, default) == IF default # "None" THEN default ELSE cls
apply_hook(hook, v) ==
    IF hook = "str" THEN py_str(v.repr) ELSE convert_numpy(v)

\* one JSON token: [type, repr], type the lexical class and repr the text
\* (a string's text without its quotes)
json_float(v) ==
    CASE v.repr = "inf" -> [type |-> "real", repr |-> "Infinity"]
      [] v.repr = "-inf" -> [type |-> "real", repr |-> "-Infinity"]
      [] v.repr = "nan" -> [type |-> "real", repr |-> "NaN"]
      [] OTHER -> [type |-> "real", repr |-> v.repr]
json_plain(v) ==
    CASE v.type = "str" -> [type |-> "string", repr |-> v.repr]
      [] v.type = "int" -> [type |-> "integer", repr |-> v.repr]
      [] v.type = "float" -> json_float(v)
      [] v.type = "bool" -> [type |-> IF v.repr = "True" THEN "true" ELSE "false",
                             repr |-> IF v.repr = "True" THEN "true" ELSE "false"]
      [] OTHER -> [type |-> "null", repr |-> "null"]
PlainTypes == {"str", "int", "float", "bool", "NoneType"}
json_value(v, hook) ==
    IF v.type \in PlainTypes THEN json_plain(v) ELSE json_plain(apply_hook(hook, v))
\* a dict key is written as a string, whatever its type: the text of the
\* member name
json_key(k) == k.repr

json_dump(doc, hook) ==
    {Leaf([i \in 1..Len(e.path) |-> json_key(e.path[i])], json_value(e.leaf, hook)) : e \in doc}

\* json.load: each token as the Python value the decoder builds, each member
\* name as a str
py_of(t) ==
    CASE t.type = "string" -> py_str(t.repr)
      [] t.type = "integer" -> [type |-> "int", repr |-> t.repr]
      [] t.type = "real" ->
            [type |-> "float",
             repr |-> CASE t.repr = "Infinity" -> "inf"
                        [] t.repr = "-Infinity" -> "-inf"
                        [] t.repr = "NaN" -> "nan"
                        [] OTHER -> t.repr]
      [] t.type = "true" -> py_bool(TRUE)
      [] t.type = "false" -> py_bool(FALSE)
      [] OTHER -> py_None
json_load(text) ==
    {Leaf([i \in 1..Len(e.path) |-> py_str(e.path[i])], py_of(e.leaf)) : e \in text}

\* json.dump(all_results, fh, indent=2, cls=NumpyEncoder, default=str) and
\* the final prints; sig is what each best_p < 0.05 evaluated to
Save ==
    /\ pc = "save"
    /\ pc' = "Completed"
    /\ LET hook == encoder_hook("NumpyEncoder", "str")
           rest == json_dump(doc_rest(all_results), hook)
       IN \E sig \in [DOMAIN all_results.table7_breakpoint -> BOOLEAN] :
             OUTPUT_JSON' = rest \cup json_dump(doc_breakpoint(all_results, sig), hook)
    /\ UNCHANGED <<df_valid, all_results, exit_reason>>
    /\ A_UNCHANGED_T7 /\ A_UNCHANGED_FIG /\ A_UNCHANGED_ENV

(***************************************************************************)
(* build_dashboard_data.build_analysis_stats: how the reads of the results *)
(* file end.  The file's table and entry names are those of all_results    *)
(* (json.dump keeps the text of a str key), so the document is read here   *)
(* as the dict that was dumped; None is the null of a failed fit.          *)
(***************************************************************************)
build_analysis_stats(analysis) ==
    LET t2 == analysis["table2_descriptive"]
        t10 == analysis["table10_sensitivity"]
        slope_of(tbl, key) ==
            IF key \notin DOMAIN tbl THEN "KeyError"
            ELSE IF tbl[key] = None THEN "TypeError"
            ELSE "ok"
    IN CASE "excess_by_category" \notin DOMAIN t2 -> "KeyError"
         [] "BAT" \notin DOMAIN analysis["table7_breakpoint"] -> "KeyError"
         [] "format_comparison" \notin DOMAIN t10 -> "KeyError"
         [] "fast_vs_bat" \notin DOMAIN t10 -> "KeyError"
         [] slope_of(analysis["table3_unadjusted"], "BAT") # "ok" ->
                slope_of(analysis["table3_unadjusted"], "BAT")
         [] slope_of(analysis["table4_adjusted"], "BAT") # "ok" ->
                slope_of(analysis["table4_adjusted"], "BAT")
         [] \E c \in DOMAIN analysis["table5_country"] :
                analysis["table5_country"][c] = None -> "TypeError"
         [] OTHER -> "ok"

(***************************************************************************)
(* The specification.  One script is started per behaviour.                *)
(***************************************************************************)
Files ==
    {[exists |-> TRUE, columns |-> OUTPUT_COLUMNS, rows |-> t] : t \in Tables}
BrokenFiles ==
    {[exists |-> TRUE, columns |-> OUTPUT_COLUMNS \ {c}, rows |-> t] :
        c \in DropColumns, t \in FewTables}
    \cup {[exists |-> FALSE, columns |-> {}, rows |-> <<>>]}

Init ==
    /\ \/ csv \in Files /\ HAS_STATSMODELS = TRUE /\ HAS_PINGOUIN = FALSE
       \/ csv \in BrokenFiles /\ HAS_STATSMODELS = TRUE /\ HAS_PINGOUIN = FALSE
       \/ csv \in {f \in Files : f.rows \in FewTables}
          /\ HAS_STATSMODELS \in BOOLEAN /\ HAS_PINGOUIN \in BOOLEAN
          /\ ~(HAS_STATSMODELS /\ ~HAS_PINGOUIN)
    /\ pc = "Idle"
    /\ df_valid = <<>>
    /\ all_results = EmptyDict
    /\ exit_reason = "none"
    /\ OUTPUT_JSON = {}
    /\ t7_cat = 0 /\ t7_bp = 0 /\ subset = <<>>
    /\ best_bp = NA /\ best_f = IntF(-1) /\ best_p = P_ONE
    /\ results = EmptyDict
    /\ chow_log = {}
    /\ fpc = "Idle"
    /\ fig_df = <<>>
    /\ f6_cat = 0 /\ f6_bp = 0 /\ f6_subset = <<>>
    /\ f6_best_bp = NA /\ f6_best_f = IntF(-1) /\ f6_best_p = P_ONE
    /\ drawn = EmptyDict
    /\ raw = NA /\ population = NA /\ report = NA /\ passes = <<>> /\ tools = <<>>

Next ==
    \/ Load \/ Table2 \/ Table3 \/ Table4 \/ Table5 \/ Table6
    \/ Table7Enter \/ T7_BeginSlice \/ T7_Candidate \/ T7_Report
    \/ Table8 \/ Table9 \/ Table10 \/ Save
    \/ FigLoad \/ F6_BeginSlice \/ F6_Candidate \/ F6_Draw

Spec == Init /\ [][Next]_vars

\* The scripts run to their end: every enabled step is eventually taken.
\* Running is the enabling condition of Next (each action is guarded by
\* the positions alone), so the fairness below is WF_vars(Next) with its
\* ENABLED written out.  The runs are those over the tables whose cells and
\* groups are empty or full.
LiveTables ==
    {Table(cnt, f, f, x) :
        cnt \in [1..Len(BatCells) -> {0, MaxCell}], f \in FastCounts, x \in Extras}
LiveInit ==
    /\ Init
    /\ csv.rows \in LiveTables \cup {<<>>}
Running ==
    \/ pc = "Idle" /\ fpc = "Idle"
    \/ fpc = "Idle" /\ pc \notin {"Idle", "Completed", "Failed"}
    \/ pc = "Idle" /\ fpc \notin {"Idle", "Done", "Failed"}
FairSpec == LiveInit /\ [][Next]_vars /\ ([]<>(~Running) \/ []<><<Next>>_vars)

(***************************************************************************)
(* The data-preparation scripts: validate_data.py, merge_all_tournaments.py,*)
(* match_population.py and correct_heights.py, run in any order over one   *)
(* tournament file.  Heights of the raw file and of the table merged from  *)
(* it are in millimetres, so that 0.1 cm is 1.                             *)
(***************************************************************************)
\* the number of script runs explored
MaxRuns == 3

\* the analysis and the figures do not run
A_UNCHANGED_ANALYSIS ==
    A_UNCHANGED_RUN /\ A_UNCHANGED_FIG /\ UNCHANGED <<HAS_STATSMODELS, HAS_PINGOUIN>>

VALID_CATEGORIES == {"WK", "BAT", "FAST", "SPIN"}
VALID_FLAGS ==
    {NA, Some("HEIGHT_ESTIMATED"), Some("HEIGHT_CONFLICTING"), Some("DOB_ESTIMATED"),
     Some("DOB_UNKNOWN"), Some("CATEGORY_AMBIGUOUS"), Some("LIMITED_APPEARANCES"),
     Some("CAPTAIN")}
VALID_FORMATS == {"ODI", "T20"}
VALID_NATIONS == {"AUS", "ENG", "IND", "PAK", "WI", "NZL", "SL", "RSA"}
HEIGHT_MIN == 1500
HEIGHT_MAX == 2200
AGE_MIN == 15
AGE_MAX == 45

\* prefix -> (corrected height, note), in the order of the dict
CORRECTIONS ==
    <<[prefix |-> "r-sharma-", height |-> 1750, note |-> "Corrected from 177"],
      [prefix |-> "s-gill-", height |-> 1780, note |-> "Corrected from 175"],
      [prefix |-> "j-bumrah-", height |-> 1780, note |-> "Corrected from 175"],
      [prefix |-> "m-shami-", height |-> 1730, note |-> "Corrected from 180"],
      [prefix |-> "g-maxwell-", height |-> 1820, note |-> "Corrected from 180"],
      [prefix |-> "m-marsh-1", height |-> 1930, note |-> "Corrected from 195"],
      [prefix |-> "t-head-", height |-> 1790, note |-> "Corrected from 182"],
      [prefix |-> "m-labuschagne-", height |-> 1800, note |-> "Corrected from 177"],
      [prefix |-> "c-lloyd-", height |-> 1960, note |-> "Corrected from 191"],
      [prefix |-> "m-marshall-", height |-> 1800, note |-> "Corrected from 175"],
      [prefix |-> "m-holding-", height |-> 1920, note |-> "Corrected from 191"],
      [prefix |-> "c-walsh-", height |-> 1980, note |-> "Corrected from 196"],
      [prefix |-> "b-lara-", height |-> 1730, note |-> "Corrected from 175"],
      [prefix |-> "c-gayle-", height |-> 1880, note |-> "Corrected from 191"],
      [prefix |-> "s-afridi-1", height |-> 1800, note |-> "Corrected from 183"],
      [prefix |-> "shoaib-akhtar-", height |-> 1830, note |-> "Corrected from 185/188"],
      [prefix |-> "shaheen-", height |-> 1980, note |-> "Corrected from 196"],
      [prefix |-> "k-williamson-", height |-> 1730, note |-> "Corrected from 176/180"],
      [prefix |-> "t-boult-", height |-> 1800, note |-> "Corrected from 183"],
      [prefix |-> "r-hadlee-", height |-> 1850, note |-> "Corrected from 183"],
      [prefix |-> "m-muralitharan-", height |-> 1700, note |-> "Corrected from 175"],
      [prefix |-> "l-malinga-", height |-> 1730, note |-> "Corrected from 175"]>>
IMRAN_CORRECTION == [height |-> 1830, note |-> "Standardized to 183cm"]

(***************************************************************************)
(* The tournament files and population tables explored.  A squad is eleven *)
(* players, the first its wicket-keeper; slots 4 to 7 lack the population  *)
(* height (born 1980, 1983, 1985 and of unknown birth year), slot 8 has    *)
(* one that no population table holds; a deviation spoils one thing, and   *)
(* slot 2 may hold a player the corrections name.                          *)
(***************************************************************************)
Devs == {"ok", "ten", "no_wk", "two_wk", "dup", "null_height", "bad_flag"}
Stars == {"sharma", "sharma_close", "shami", "imran", "sharma_null"}

Player(pid, name, cat, by, h, pop, flag) ==
    [player_id |-> pid, full_name |-> name, category |-> cat, birth_year |-> by,
     height_cm |-> h, height_source |-> "espn", pop_height_birth_cohort |-> pop,
     flag |-> flag, notes |-> ""]

StarPlayer(star, pop) ==
    CASE star = "sharma" -> Player("r-sharma-01", "Rohit Sharma", "BAT", Some(1987), Some(1770), pop, NA)
      [] star = "sharma_close" -> Player("r-sharma-01", "Rohit Sharma", "BAT", Some(1987), Some(1751), pop, NA)
      [] star = "sharma_null" -> Player("r-sharma-01", "Rohit Sharma", "BAT", Some(1987), NA, pop, NA)
      [] star = "shami" -> Player("m-shami-01", "Mohammed Shami", "BAT", Some(1990), Some(1800), pop, Some("HEIGHT_ESTIMATED"))
      [] OTHER -> Player("i-khan-01", "Imran Khan", "BAT", Some(1980), Some(1850), pop, Some("CAPTAIN"))

SlotPlayer(nation, tag, dev, fill, i) ==
    Player(nation \o "-" \o tag \o "-" \o str_nat(IF dev = "dup" /\ i = 3 THEN 4 ELSE i),
           "player",
           IF i = 1 THEN (IF dev = "no_wk" THEN "BAT" ELSE "WK")
           ELSE IF i = 3 /\ dev = "two_wk" THEN "WK"
           ELSE IF i <= 6 THEN "BAT" ELSE "FAST",
           CASE i = 5 -> Some(1983) [] i = 6 -> Some(1985) [] i = 7 -> NA [] OTHER -> Some(1980),
           IF i = 3 /\ dev = "null_height" THEN NA ELSE Some(1800),
           IF fill = "full" THEN Some(1750)
           ELSE IF i \in 4..7 THEN NA ELSE IF i = 8 THEN Some(1700) ELSE Some(1750),
           IF i = 3 /\ dev = "bad_flag" THEN Some("INJURED") ELSE NA)

Squad(nation, tag, dev, star, fill) ==
    [nation |-> nation,
     playing_xi |->
        [i \in 1..(IF dev = "ten" THEN 10 ELSE 11) |->
            IF i = 2 /\ star # "none" THEN StarPlayer(star, Some(1750))
            ELSE SlotPlayer(nation, tag, dev, fill, i)]]

Tournament(era) ==
    [tournament_id |-> "wc-2011", format |-> "ODI", year |-> 2011, host |-> "IND",
     winner |-> "IND", era |-> era]

TournamentFiles ==
    {[tournament |-> Tournament(3), teams |-> <<Squad(n, "a", d, "none", "gaps")>>] :
        n \in {"AUS", "IND"}, d \in Devs}
    \cup {[tournament |-> Tournament(3), teams |-> <<Squad("AUS", "a", "ok", s, "gaps")>>] :
        s \in Stars}
    \cup {[tournament |-> Tournament(3), teams |-> t] :
        t \in {<<>>,
               <<Squad("ZIM", "a", "ok", "none", "gaps")>>,
               <<Squad("AUS", "a", "ok", "none", "full")>>,
               <<Squad("AUS", "a", "ok", "none", "gaps"), Squad("IND", "a", "ok", "none", "gaps")>>,
               <<Squad("AUS", "a", "ok", "none", "gaps"), Squad("AUS", "b", "ok", "none", "gaps")>>,
               <<Squad("AUS", "a", "ok", "sharma", "gaps"), Squad("IND", "a", "ok", "sharma", "gaps")>>}}
    \cup {[tournament |-> Tournament(4), teams |-> <<Squad("AUS", "a", "ok", "none", "gaps")>>]}

PopRow(c, y, h) == [country_code |-> c, birth_year |-> y, mean_height_cm |-> h]
PopulationFiles ==
    {[exists |-> FALSE, rows |-> <<>>]}
    \cup {[exists |-> TRUE, rows |-> r] :
            r \in {<<>>,
                   <<PopRow("AUS", 1980, 1780), PopRow("AUS", 1986, 1790)>>,
                   <<PopRow("AUS", 1986, 1790), PopRow("AUS", 1980, 1780)>>,
                   <<PopRow("AUS", 1980, 1770), PopRow("AUS", 1986, 1790),
                     PopRow("IND", 1983, 1650), PopRow("AUS", 1980, 1780)>>}}

(***************************************************************************)
(* validate_data.py                                                        *)
(***************************************************************************)
\* the players of a file, team after team
all_players(data) == Flatten([t \in 1..Len(data.teams) |-> data.teams[t].playing_xi])

\* the positions of ids that repeat an earlier one of the same list
repeats(ids) == {i \in 1..Len(ids) : \E j \in 1..(i - 1) : ids[j] = ids[i]}

expected_era(year) ==
    IF 1975 <= year /\ year <= 1987 THEN Some(1)
    ELSE IF 1992 <= year /\ year <= 1999 THEN Some(2)
    ELSE IF 2003 <= year /\ year <= 2012 THEN Some(3)
    ELSE IF 2014 <= year /\ year <= 2026 THEN Some(4)
    ELSE NA

\* result.error(...) / result.warn(...) under a condition
msg(cond, kind) == IF cond THEN {kind} ELSE {}

\* the messages one player adds
player_errors(player, tournament_year, strict) ==
    msg(player.category \notin VALID_CATEGORIES, "category")
    \cup msg(/\ notna(player.height_cm)
             /\ \/ Val(player.height_cm) < HEIGHT_MIN
                \/ Val(player.height_cm) > HEIGHT_MAX, "height_range")
    \cup msg(/\ notna(player.birth_year)
             /\ \/ tournament_year - Val(player.birth_year) < AGE_MIN
                \/ tournament_year - Val(player.birth_year) > AGE_MAX, "age")
    \cup msg(strict /\ player.flag \notin VALID_FLAGS, "flag")
player_warnings(player, strict) ==
    msg(player.height_cm = NA, "height_null")
    \cup msg(~strict /\ player.flag \notin VALID_FLAGS, "flag")

\* the messages one team adds, its players' included
team_errors(team, tournament_year, strict) ==
    LET xi == team.playing_xi
        wk_count == Cardinality({i \in 1..Len(xi) : xi[i].category = "WK"})
        team_player_ids == [i \in 1..Len(xi) |-> xi[i].player_id]
    IN msg(strict /\ team.nation \notin VALID_NATIONS, "nation")
       \cup msg(Len(xi) # 11, "players")
       \cup UNION {player_errors(xi[i], tournament_year, strict) : i \in 1..Len(xi)}
       \cup msg(wk_count # 1, "wk_count")
       \cup msg(repeats(team_player_ids) # {}, "duplicate_in_team")
team_warnings(team, strict) ==
    msg(~strict /\ team.nation \notin VALID_NATIONS, "nation")
    \cup UNION {player_warnings(team.playing_xi[i], strict) : i \in 1..Len(team.playing_xi)}

\* ValidationResult of one file: the kinds of its errors and warnings
validate_file(data, strict) ==
    LET tournament == data.tournament
        teams == data.teams
        all_player_ids == [i \in 1..Len(all_players(data)) |-> all_players(data)[i].player_id]
        era_warn == msg(/\ notna(expected_era(tournament.year))
                        /\ tournament.era # Val(expected_era(tournament.year)), "era")
        fmt_err == msg(tournament.format \notin VALID_FORMATS, "format")
    IN IF Len(teams) = 0
       THEN [errors |-> fmt_err \cup {"no_teams"}, warnings |-> era_warn]
       ELSE [errors |-> fmt_err \cup UNION {team_errors(teams[t], tournament.year, strict) :
                                               t \in 1..Len(teams)},
             warnings |-> era_warn
                          \cup UNION {team_warnings(teams[t], strict) : t \in 1..Len(teams)}
                          \cup msg(repeats(all_player_ids) # {}, "duplicate_across_teams")]

\* ValidationResult.passed
passed(result) == result.errors = {}

\* validate_data.main over the one file
ValidateData ==
    /\ Len(tools) < MaxRuns
    /\ \E strict \in BOOLEAN :
          LET res == validate_file(raw, strict)
          IN report' = [strict |-> strict, errors |-> res.errors,
                        warnings |-> res.warnings,
                        exit_code |-> IF passed(res) THEN 0 ELSE 1]
    /\ tools' = Append(tools, "validate")
    /\ UNCHANGED <<raw, population, passes, csv>>
    /\ A_UNCHANGED_ANALYSIS

(***************************************************************************)
(* merge_all_tournaments.py                                                *)
(***************************************************************************)
\* the flat list of player rows of one file
load_tournament(data) ==
    Flatten([t \in 1..Len(data.teams) |->
        [i \in 1..Len(data.teams[t].playing_xi) |->
            LET player == data.teams[t].playing_xi[i]
            IN [player_id |-> Some(player.player_id),
                full_name |-> Some(player.full_name),
                country |-> Some(data.teams[t].nation),
                category |-> Some(player.category),
                birth_year |-> player.birth_year,
                height_cm |-> player.height_cm,
                height_source |-> Some(player.height_source),
                pop_height_birth_cohort |-> player.pop_height_birth_cohort,
                flag |-> player.flag,
                notes |-> Some(player.notes),
                tournament_id |-> Some(data.tournament.tournament_id),
                format |-> Some(data.tournament.format),
                tournament_year |-> Some(data.tournament.year),
                era |-> Some(data.tournament.era)]]])

\* the derived columns of merge_all_tournaments.main
derive(row) ==
    [c \in DOMAIN row \cup {"height_excess", "region"} |->
        CASE c = "height_excess" -> height_excess(row.height_cm, row.pop_height_birth_cohort)
          [] c = "region" -> Some(IF Val(row.country) \in DOMAIN REGION_MAP
                                  THEN REGION_MAP[Val(row.country)] ELSE "Unknown")
          [] OTHER -> row[c]]

\* DataFrame.to_csv: a missing cell and an empty string are both written
\* as the empty field, which read_csv reads as missing
to_csv(rows) ==
    LET text == {"player_id", "full_name", "country", "category", "height_source",
                 "flag", "notes", "tournament_id", "format", "region"}
    IN [i \in 1..Len(rows) |->
          [c \in DOMAIN rows[i] |->
              IF c \in text /\ rows[i][c] = Some("") THEN NA ELSE rows[i][c]]]

MergeAllTournaments ==
    /\ Len(tools) < MaxRuns
    /\ LET all_rows == load_tournament(raw)
       IN IF Len(all_rows) = 0
          THEN UNCHANGED csv
          ELSE csv' = [exists |-> TRUE,
                       columns |-> DOMAIN derive(all_rows[1]),
                       rows |-> to_csv([i \in 1..Len(all_rows) |-> derive(all_rows[i])])]
    /\ tools' = Append(tools, "merge")
    /\ UNCHANGED <<raw, population, report, passes>>
    /\ A_UNCHANGED_ANALYSIS

(***************************************************************************)
(* match_population.py                                                     *)
(***************************************************************************)
\* pop_lookup[(country, year)]: the last row of the key wins
pop_lookup(pop, country, year) ==
    LET at == {i \in 1..Len(pop) : pop[i].country_code = country /\ pop[i].birth_year = year}
    IN pop[CHOOSE i \in at : \A j \in at : j <= i].mean_height_cm

\* the birth years of a country in the order of the dict: a key stays
\* where it was first inserted
country_years(pop, country) ==
    LET first == {i \in 1..Len(pop) : /\ pop[i].country_code = country
                                      /\ \A j \in 1..(i - 1) :
                                            ~(pop[j].country_code = country
                                              /\ pop[j].birth_year = pop[i].birth_year)}
    IN [k \in 1..Cardinality(first) |->
            pop[CHOOSE i \in first : Cardinality({j \in first : j <= i}) = k].birth_year]

\* min(keys, key=lambda y: abs(y - by)): the first key at the least distance
nearest_year(years, by) ==
    years[CHOOSE k \in 1..Len(years) :
            /\ \A j \in 1..Len(years) : Abs(years[k] - by) <= Abs(years[j] - by)
            /\ \A j \in 1..(k - 1) : Abs(years[j] - by) > Abs(years[k] - by)]

\* the population height of a row after the fill loop
pop_fill_overwrite(row, pop) ==
    LET country == IF notna(row.country) THEN Val(row.country) ELSE ""
        years == country_years(pop, country)
    IN IF row.birth_year = NA \/ Len(years) = 0 THEN row.pop_height_birth_cohort
       ELSE Some(pop_lookup(pop, country, nearest_year(years, Val(row.birth_year))))
pop_fill(row, pop) ==
    IF notna(row.pop_height_birth_cohort) THEN row.pop_height_birth_cohort
    ELSE IF row.birth_year = NA THEN NA
    ELSE LET country == IF notna(row.country) THEN Val(row.country) ELSE ""
             by == Val(row.birth_year)
             years == country_years(pop, country)
         IN IF \E i \in 1..Len(pop) : pop[i].country_code = country /\ pop[i].birth_year = by
            THEN Some(pop_lookup(pop, country, by))
            ELSE IF Len(years) # 0
            THEN Some(pop_lookup(pop, country, nearest_year(years, by)))
            ELSE NA

MatchPopulation ==
    /\ Len(tools) < MaxRuns
    /\ IF ~population.exists \/ ~csv.exists
       THEN UNCHANGED csv
       ELSE LET df == csv.rows
                initial_missing ==
                    Cardinality({i \in 1..Len(df) : df[i].pop_height_birth_cohort = NA})
            IN IF initial_missing = 0
               THEN UNCHANGED csv
               ELSE csv' = [csv EXCEPT !.rows =
                              to_csv([i \in 1..Len(df) |->
                                 LET filled == pop_fill(df[i], population.rows)
                                 IN [df[i] EXCEPT
                                       !.pop_height_birth_cohort = filled,
                                       !.height_excess = height_excess(df[i].height_cm, filled)]])]
    /\ tools' = Append(tools, "match")
    /\ UNCHANGED <<raw, population, report, passes>>
    /\ A_UNCHANGED_ANALYSIS

(***************************************************************************)
(* correct_heights.py                                                      *)
(***************************************************************************)
startswith(s, prefix) == Len(s) >= Len(prefix) /\ SubSeq(s, 1, Len(prefix)) = prefix

\* the correction of a player, NA (None) if no rule matches
match_player(player, corrections) ==
    LET hits == {k \in 1..Len(corrections) : startswith(player.player_id, corrections[k].prefix)}
    IN IF hits # {}
       THEN LET k == CHOOSE k \in hits : \A j \in hits : k <= j
            IN Some([height |-> corrections[k].height, note |-> corrections[k].note])
       ELSE IF player.full_name = "Imran Khan" THEN Some(IMRAN_CORRECTION)
       ELSE IF player.full_name = "Shahid Afridi"
       THEN Some([height |-> 1800, note |-> "Corrected from 183"])
       ELSE IF player.full_name = "Shoaib Akhtar"
       THEN Some([height |-> 1830, note |-> "Corrected from 185/188"])
       ELSE IF player.full_name \in {"Shaheen Shah Afridi", "Shaheen Afridi"}
       THEN Some([height |-> 1980, note |-> "Corrected from 196"])
       ELSE NA

\* abs(old_height - new_height) > 0.1 of a player with a height
needs_change(player) ==
    /\ notna(match_player(player, CORRECTIONS))
    /\ Abs(Val(player.height_cm) - Val(match_player(player, CORRECTIONS)).height) > 1

\* the body of the if: the player after the correction
apply_correction_keep_height(player, new_height, note) ==
    [player EXCEPT
        !.notes = IF player.notes # "" THEN player.notes \o "; VERIFIED: " \o note
                  ELSE "VERIFIED: " \o note,
        !.height_source = "multi_source_verified"]
apply_correction(player, new_height, note) ==
    LET old_height == Val(player.height_cm)
    IN [player EXCEPT
          !.height_cm = Some(new_height),
          !.flag = IF player.flag \in {NA, Some("HEIGHT_ESTIMATED")}
                   THEN (IF Abs(old_height - new_height) >= 50
                         THEN Some("HEIGHT_CONFLICTING") ELSE player.flag)
                   ELSE player.flag,
          !.notes = IF player.notes # "" THEN player.notes \o "; VERIFIED: " \o note
                    ELSE "VERIFIED: " \o note,
          !.height_source = "multi_source_verified"]

\* process_file: the data after the loop, the changes logged, and whether
\* the subtraction raised TypeError on a matching player without a height
process_file(data) ==
    LET players == all_players(data)
        raised == \E i \in 1..Len(players) :
                     notna(match_player(players[i], CORRECTIONS)) /\ players[i].height_cm = NA
        fix(player) ==
            IF needs_change(player)
            THEN LET result == Val(match_player(player, CORRECTIONS))
                 IN apply_correction(player, result.height, result.note)
            ELSE player
        change(team, player) ==
            IF needs_change(player)
            THEN <<[player |-> player.full_name, nation |-> team.nation,
                    old |-> Val(player.height_cm),
                    new |-> Val(match_player(player, CORRECTIONS)).height]>>
            ELSE <<>>
    IN IF raised
       THEN [data |-> data, changes |-> <<>>, raised |-> TRUE]
       ELSE [data |-> [data EXCEPT !.teams =
                         [t \in 1..Len(data.teams) |->
                            [data.teams[t] EXCEPT !.playing_xi =
                               [i \in 1..Len(data.teams[t].playing_xi) |->
                                  fix(data.teams[t].playing_xi[i])]]]],
             changes |-> Flatten([t \in 1..Len(data.teams) |->
                            Flatten([i \in 1..Len(data.teams[t].playing_xi) |->
                                change(data.teams[t], data.teams[t].playing_xi[i])])]),
             raised |-> FALSE]

\* correct_heights.main over the one file: the file is written only if
\* something changed
CorrectHeights ==
    /\ Len(tools) < MaxRuns
    /\ LET res == process_file(raw)
           written == ~res.raised /\ Len(res.changes) # 0
       IN /\ raw' = IF written THEN res.data ELSE raw
          /\ passes' = Append(passes, [changes |-> res.changes, written |-> written,
                                       raised |-> res.raised])
    /\ tools' = Append(tools, "correct")
    /\ UNCHANGED <<population, report, csv>>
    /\ A_UNCHANGED_ANALYSIS

ToolsInit ==
    /\ raw \in TournamentFiles
    /\ population \in PopulationFiles
    /\ csv = [exists |-> FALSE, columns |-> {}, rows |-> <<>>]
    /\ report = NA /\ passes = <<>> /\ tools = <<>>
    /\ HAS_STATSMODELS = TRUE /\ HAS_PINGOUIN = FALSE
    /\ pc = "Idle"
    /\ df_valid = <<>>
    /\ all_results = EmptyDict
    /\ exit_reason = "none"
    /\ OUTPUT_JSON = {}
    /\ t7_cat = 0 /\ t7_bp = 0 /\ subset = <<>>
    /\ best_bp = NA /\ best_f = IntF(-1) /\ best_p = P_ONE
    /\ results = EmptyDict
    /\ chow_log = {}
    /\ fpc = "Idle"
    /\ fig_df = <<>>
    /\ f6_cat = 0 /\ f6_bp = 0 /\ f6_subset = <<>>
    /\ f6_best_bp = NA /\ f6_best_f = IntF(-1) /\ f6_best_p = P_ONE
    /\ drawn = EmptyDict
ToolsNext == ValidateData \/ MergeAllTournaments \/ MatchPopulation \/ CorrectHeights
ToolsSpec == ToolsInit /\ [][ToolsNext]_vars

(***************************************************************************)
(* Vocabulary of the properties.                                           *)
(***************************************************************************)
\* the number of rows of data that satisfy P
Count(data, P(_)) == Cardinality({i \in 1..Len(data) : P(data[i])})

\* the rows of data with a height and a year
Complete(data) == Count(data, LAMBDA r : r.height_cm # NA /\ r.tournament_year # NA)

\* the input lacks a required column or has no rows at all
Malformed == csv.columns # OUTPUT_COLUMNS \/ Len(csv.rows) = 0
\* the input has every column and at least one row with a height
Usable == /\ csv.exists
          /\ csv.columns = OUTPUT_COLUMNS
          /\ \E i \in 1..Len(csv.rows) : csv.rows[i].height_cm # NA

RunStages == {"table2", "table3", "table4", "table5", "table6", "table7", "t7_slice",
              "t7_cand", "t7_report", "table8", "table9", "table10", "save"}
StageNames == {"table2_descriptive", "table3_unadjusted", "table4_adjusted",
               "table5_country", "table6_regional", "table7_breakpoint",
               "table8_two_way_anova", "table9_mixed_effects", "table10_sensitivity"}

\* the rows of a slice of the breakpoint analysis, counted from the input
InSlice(r, cat) ==
    /\ r.height_cm # NA /\ r.tournament_year # NA
    /\ cat # "ALL" => r.category = <<cat>>
PreCount(cat, bp) ==
    Count(csv.rows, LAMBDA r : InSlice(r, cat) /\ r.tournament_year[1] <= bp)
PostCount(cat, bp) ==
    Count(csv.rows, LAMBDA r : InSlice(r, cat) /\ r.tournament_year[1] > bp)
SliceCount(cat) == Count(csv.rows, LAMBDA r : InSlice(r, cat))
\* the candidates of the fixed list with at least 5 rows on either side
ValidCandidates(cat) ==
    {bp \in {1996, 1999, 2003, 2007, 2010, 2012} :
        PreCount(cat, bp) >= 5 /\ PostCount(cat, bp) >= 5}

\* the F values computed for a slice
Evaluated(cat) == {e \in chow_log : e.cat = cat}

C2_Claim ==
    Malformed => pc \in {"Idle", "Failed"} /\ DOMAIN all_results = {}

(***************************************************************************)
(* C3.  In a completed run every slice of the per-category regression and  *)
(* of the breakpoint analysis has an entry under its key, a slice that     *)
(* could not be analysed holding an explicit record of that.               *)
(***************************************************************************)
C3_Claim ==
    pc = "Completed" =>
        /\ \A cat \in {"WK", "BAT", "FAST", "SPIN", "ALL"} :
              cat \in DOMAIN all_results.table3_unadjusted
        /\ HAS_STATSMODELS =>
              \A cat \in {"BAT", "FAST", "ALL"} :
                  cat \in DOMAIN all_results.table7_breakpoint

(***************************************************************************)
(* C4.  Every completed run yields a document of the same shape: the nine  *)
(* analysis keys and, under the analyses that are keyed by a grouping, the *)
(* full set of grouping keys.                                              *)
(***************************************************************************)
FullShape ==
    [table3_unadjusted |-> {"WK", "BAT", "FAST", "SPIN", "ALL"},
     table4_adjusted |-> {"WK", "BAT", "FAST", "SPIN", "ALL"},
     table5_country |-> {"AUS", "ENG", "IND", "PAK", "WI", "NZL", "SL", "RSA"},
     table10_sensitivity |-> {"verified_only", "unflagged_only", "odi_only", "t20_only",
                              "format_comparison", "fast_vs_bat"}]
C4_Claim ==
    pc = "Completed" =>
        /\ DOMAIN all_results = StageNames
        /\ \A t \in DOMAIN FullShape : DOMAIN all_results[t] = FullShape[t]

(***************************************************************************)
(* C5.  With statsmodels available, a regression over a slice is fitted    *)
(* exactly when the slice has at least 5 complete rows (rows with a height *)
(* and a year), whatever its row count before the missing-value filter: 4  *)
(* complete rows give no fit, 5 give a fit over those 5 rows.              *)
(***************************************************************************)
\* the slices of table10 that reach safe_ols unfiltered
SensitivitySlice(key) ==
    CASE key = "verified_only" ->
            Filter(csv.rows, LAMBDA r : r.height_cm # NA /\ r.height_verified = <<TRUE>>)
      [] key = "unflagged_only" ->
            Filter(csv.rows, LAMBDA r : r.height_cm # NA /\ r.flag \in {<<>>, <<"">>})
      [] key = "odi_only" ->
            Filter(csv.rows, LAMBDA r : r.height_cm # NA /\ r.format = <<"ODI">>)
      [] OTHER ->
            Filter(csv.rows, LAMBDA r : r.height_cm # NA /\ r.format = <<"T20">>)
SensitivityFits == {"verified_only", "unflagged_only"}
CategoryRows(cat) == Filter(csv.rows, LAMBDA r : r.category = <<cat>>)

C5_Fits(present, fit, rows) ==
    /\ Complete(rows) < 5 => ~present \/ fit = None
    /\ Complete(rows) >= 5 => present /\ fit # None /\ fit.n = Complete(rows)

C5_Body ==
    /\ \A key \in SensitivityFits :
          C5_Fits(key \in DOMAIN all_results.table10_sensitivity,
                  IF key \in DOMAIN all_results.table10_sensitivity
                  THEN all_results.table10_sensitivity[key] ELSE None,
                  SensitivitySlice(key))
    /\ \A cat \in {"WK", "BAT", "FAST", "SPIN"} :
          C5_Fits(cat \in DOMAIN all_results.table3_unadjusted,
                  IF cat \in DOMAIN all_results.table3_unadjusted
                  THEN all_results.table3_unadjusted[cat] ELSE None,
                  CategoryRows(cat))

C5_Theorem == pc = "Completed" /\ HAS_STATSMODELS => C5_Body

\* a slice of 5 rows of which 4 are complete was not fitted, and a slice of
\* exactly 5 complete rows was
C5_Witness ==
    /\ pc = "Completed" /\ HAS_STATSMODELS
    /\ Len(SensitivitySlice("verified_only")) = 5
    /\ Complete(SensitivitySlice("verified_only")) = 4
    /\ "verified_only" \notin DOMAIN all_results.table10_sensitivity
    /\ Complete(CategoryRows("FAST")) = 5
    /\ all_results.table3_unadjusted["FAST"].n = 5

\* C5 as stated, with no condition on the library
C5_Original == pc = "Completed" => C5_Body

(***************************************************************************)
(* C6.  The breakpoint reported for a slice is, among the candidates whose *)
(* F was computed for that slice, the one with the maximum F: no computed  *)
(* F is greater than the reported F (reported rounded to 4 places), every  *)
(* earlier candidate's F differs from it, and a slice with a computed F    *)
(* that is a number has a reported breakpoint.                             *)
(***************************************************************************)
Table7Done == "table7_breakpoint" \in DOMAIN all_results
\* where the search stands while it runs and when it has just returned:
\* results and the log of computed F values change in no other place
SearchStages == {"t7_slice", "t7_cand", "t7_report", "table8"}

C6_Theorem ==
    /\ pc \in SearchStages => \A cat \in DOMAIN results :
          \E w \in Evaluated(cat) :
              /\ results[cat].best_breakpoint = [year |-> w.bp]
              /\ results[cat].f_statistic = round4(w.f_stat)
              /\ \A o \in Evaluated(cat) :
                    /\ ~FGt(o.f_stat, w.f_stat)
                    /\ o.bp < w.bp => o.f_stat # w.f_stat
    /\ pc = "table8" =>
          \A cat \in {"BAT", "FAST", "ALL"} :
              (\E o \in Evaluated(cat) : o.f_stat # NaN) => cat \in DOMAIN results

\* a reported breakpoint that shares the maximum F with a later candidate and
\* beats a candidate of smaller F
C6_Witness ==
    /\ pc \in SearchStages /\ "BAT" \in DOMAIN results
    /\ \E w, t, o \in Evaluated("BAT") :
          /\ results["BAT"].best_breakpoint = [year |-> w.bp]
          /\ t.bp > w.bp /\ t.f_stat = w.f_stat
          /\ FGt(w.f_stat, o.f_stat)

(***************************************************************************)
(* C7.  Each candidate year splits the rows of the slice into pre (year <= *)
(* bp) and post (year > bp), every row falling in exactly one of the two;  *)
(* an F is computed for a candidate, and a candidate is held or reported   *)
(* as best, only if both parts have at least 5 rows.                       *)
(***************************************************************************)
C7_Theorem ==
    /\ pc = "t7_cand" =>
          LET bp == candidate_years[t7_bp]
              pre == pre_of(subset, bp)
              post == post_of(subset, bp)
          IN /\ Len(pre) + Len(post) = Len(subset)
             /\ \A i \in 1..Len(pre) : pre[i].tournament_year[1] <= bp
             /\ \A i \in 1..Len(post) : post[i].tournament_year[1] > bp
    /\ pc \in SearchStages =>
          \A e \in chow_log : PreCount(e.cat, e.bp) >= 5 /\ PostCount(e.cat, e.bp) >= 5
    /\ pc \in {"t7_cand", "t7_report"} /\ best_bp # NA =>
          best_bp[1] \in ValidCandidates(BreakpointSlices[t7_cat])
    /\ pc \in SearchStages =>
          \A cat \in DOMAIN results :
              results[cat].best_breakpoint.year \in ValidCandidates(cat)

\* the search has passed a candidate with 4 rows after it, and computed an
\* F for another candidate, whose rows before it lie on the candidate year
C7_Witness ==
    /\ pc = "t7_report"
    /\ BreakpointSlices[t7_cat] = "BAT"
    /\ PreCount("BAT", 2003) >= 5 /\ PostCount("BAT", 2003) = 4
    /\ PreCount("BAT", 2003) > PreCount("BAT", 1999)
    /\ Evaluated("BAT") # {}
    /\ \A e \in Evaluated("BAT") : e.bp = 1999

(***************************************************************************)
(* C8.  A slice in which no candidate year has at least 5 rows on both     *)
(* sides gets no breakpoint result: no entry (best_breakpoint, F, p-value, *)
(* slopes) is reported for it.                                             *)
(***************************************************************************)
\* stated where table7_breakpoint has just returned: its entry of all_results
\* is not assigned again
C8_Theorem ==
    pc = "table8" /\ HAS_STATSMODELS =>
        \A cat \in {"BAT", "FAST", "ALL"} :
            ValidCandidates(cat) = {} =>
                cat \notin DOMAIN all_results.table7_breakpoint

\* a slice large enough to be searched, with rows on both sides of a
\* candidate but fewer than 5 on one of them, was searched and left out
C8_Witness ==
    /\ pc = "table8" /\ Table7Done /\ HAS_STATSMODELS
    /\ SliceCount("BAT") >= 10
    /\ PreCount("BAT", 2003) >= 5 /\ PostCount("BAT", 2003) = 4
    /\ ValidCandidates("BAT") = {}
    /\ "BAT" \notin DOMAIN all_results.table7_breakpoint

(***************************************************************************)
(* C9.  Every breakpoint reported in the results or drawn in the figure    *)
(* for a slice is a candidate of the fixed list with at least 5 rows of    *)
(* that slice on both sides.                                               *)
(***************************************************************************)
C9_Claim ==
    /\ \A cat \in DOMAIN results :
          results[cat].best_breakpoint.year \in ValidCandidates(cat)
    /\ \A cat \in DOMAIN drawn :
          drawn[cat].kind = "breakpoint" => drawn[cat].best_bp \in ValidCandidates(cat)

(***************************************************************************)
(* C10.  The breakpoint result of each slice is a function of that slice's *)
(* rows alone: it equals the result of a search run on those rows from the *)
(* initial best (no breakpoint, F = -1, p = 1), whatever slices were       *)
(* searched before it.                                                     *)
(***************************************************************************)
\* the search over candidate_years[i..] from best b
RECURSIVE search(_, _, _)
search(data, i, b) ==
    IF i > Len(candidate_years) THEN b
    ELSE search(data, i + 1, candidate_step(data, candidate_years[i], b))

SliceRows(cat) == Filter(csv.rows, LAMBDA r : InSlice(r, cat))
\* the result of the slice searched on its own: <<>> if none, else <<entry>>
SliceResult(cat) ==
    LET data == SliceRows(cat)
        b == search(data, 1, [bp |-> NA, f |-> IntF(-1), p |-> P_ONE])
    IN IF Len(data) < 10 \/ b.bp = NA THEN <<>>
       ELSE <<t7_entry(b, pre_of(data, b.bp[1]), post_of(data, b.bp[1]))>>

C11_Theorem ==
    pc \in SearchStages => \A cat \in DOMAIN results :
        LET e == results[cat]
        IN /\ {"pre_slope", "post_slope"} \subseteq DOMAIN e
           /\ e.pre_slope = [fit_n |-> PreCount(cat, e.best_breakpoint.year)]
           /\ e.post_slope = [fit_n |-> PostCount(cat, e.best_breakpoint.year)]

\* a reported breakpoint that is not the first candidate evaluated, whose
\* segments differ from those of the first
C11_Witness ==
    /\ pc \in SearchStages /\ "BAT" \in DOMAIN results
    /\ results["BAT"].best_breakpoint.year = 2003
    /\ \E o \in Evaluated("BAT") : o.bp = 1999
    /\ PreCount("BAT", 2003) > PreCount("BAT", 1999)
    /\ results["BAT"].pre_slope.fit_n = PreCount("BAT", 2003)
    /\ results["BAT"].post_slope.fit_n = PostCount("BAT", 2003)

(***************************************************************************)
(* C12.  A slice whose complete rows all share one tournament_year (a      *)
(* rank-deficient design) is never given a coefficient record: its entry   *)
(* in the per-category regression is absent or null.                       *)
(***************************************************************************)
\* the complete rows of the slice are at least one and share their year
RankDeficient(rows) ==
    /\ Complete(rows) >= 1
    /\ \A i, j \in 1..Len(rows) :
          rows[i].height_cm # NA /\ rows[i].tournament_year # NA
          /\ rows[j].height_cm # NA /\ rows[j].tournament_year # NA
          => rows[i].tournament_year = rows[j].tournament_year

C12_Claim ==
    pc = "Completed" =>
        \A cat \in {"WK", "BAT", "FAST", "SPIN"} :
            RankDeficient(CategoryRows(cat)) =>
                \/ cat \notin DOMAIN all_results.table3_unadjusted
                \/ all_results.table3_unadjusted[cat] = None

(***************************************************************************)
(* C13.  Whenever the one-way test over regions has run, the results hold  *)
(* the post-hoc comparisons: one record for every unordered pair of the    *)
(* regions that entered the test.                                          *)
(***************************************************************************)
RegionalDone == "table6_regional" \in DOMAIN all_results
C13_Claim ==
    RegionalDone /\ "overall_anova" \in DOMAIN all_results.table6_regional =>
        /\ "pairwise" \in DOMAIN all_results.table6_regional
        /\ all_results.table6_regional.pairwise =
              {pair \in SUBSET all_results.table6_regional.overall_anova.regions :
                  Cardinality(pair) = 2}

(***************************************************************************)
(* C14.  The one-way test over regions is run exactly when at least 2      *)
(* regions have at least 2 rows with a height each; the regions listed in  *)
(* its result are exactly those regions; and the per-region statistics     *)
(* describe every region that has a row with a height, with its row count, *)
(* whether or not it entered the test.                                     *)
(***************************************************************************)
\* the rows with a height of a region, counted from the input
RegionCount(r) ==
    Count(csv.rows, LAMBDA row : row.height_cm # NA /\ row.region = <<r>>)
Regions == {"South Asian", "Oceanian", "Caribbean", "European", "African", "Unknown"}
TestedRegions == {r \in Regions : RegionCount(r) >= 2}

\* stated where table6_regional_anova has just returned: its entry of
\* all_results is not assigned again
C14_Theorem ==
    pc = "table7" =>
        LET t6 == all_results.table6_regional
        IN /\ "overall_anova" \in DOMAIN t6 <=> Cardinality(TestedRegions) >= 2
           /\ "overall_anova" \in DOMAIN t6 =>
                 /\ t6.overall_anova.regions = TestedRegions
                 /\ DOMAIN t6.region_descriptive.count = {r \in Regions : RegionCount(r) >= 1}
                 /\ \A r \in DOMAIN t6.region_descriptive.count :
                       t6.region_descriptive.count[r] = RegionCount(r)

\* the test ran over two regions while a third, with one row, stayed out of
\* it and is described
C14_Witness ==
    /\ pc = "table7" /\ RegionalDone
    /\ "overall_anova" \in DOMAIN all_results.table6_regional
    /\ Cardinality(TestedRegions) = 2
    /\ RegionCount("Oceanian") = 1
    /\ all_results.table6_regional.region_descriptive.count["Oceanian"] = 1
    /\ "Oceanian" \notin all_results.table6_regional.overall_anova.regions

\* C14 as stated: the regions described are those that entered the test
C14_Original ==
    RegionalDone =>
        LET t6 == all_results.table6_regional
        IN /\ "overall_anova" \in DOMAIN t6 <=> Cardinality(TestedRegions) >= 2
           /\ "overall_anova" \in DOMAIN t6 =>
                 /\ t6.overall_anova.regions = TestedRegions
                 /\ DOMAIN t6.region_descriptive.count = TestedRegions

(***************************************************************************)
(* C15.  Whenever the mixed-effects fit was attempted (statsmodels is      *)
(* present and the rows with height, year and country are at least 10 over *)
(* at least 2 countries), the mixed-effects entry holds a model record,    *)
(* with converged false if the fit did not succeed; and the run goes on to *)
(* the next stage.                                                         *)
(***************************************************************************)
MixedDone == "table9_mixed_effects" \in DOMAIN all_results
\* the rows table9 fits on, taken from the input
MixedRows ==
    Filter(csv.rows, LAMBDA r : r.height_cm # NA /\ r.tournament_year # NA /\ r.country # NA)
MixedCountries == {MixedRows[i].country[1] : i \in 1..Len(MixedRows)}
MixedAttempted ==
    HAS_STATSMODELS /\ Len(MixedRows) >= 10 /\ Cardinality(MixedCountries) >= 2

C15_Claim ==
    MixedDone /\ MixedAttempted =>
        /\ pc \in {"table10", "save", "Completed"}
        /\ "model1" \in DOMAIN all_results.table9_mixed_effects

(***************************************************************************)
(* C16.  Every mixed-effects model record carries the group count, equal   *)
(* to the number of distinct countries among the rows the model was fitted *)
(* on, which is at least 2.                                                *)
(***************************************************************************)
C16_Claim ==
    MixedDone =>
        \A m \in DOMAIN all_results.table9_mixed_effects :
            /\ "n_groups" \in DOMAIN all_results.table9_mixed_effects[m]
            /\ all_results.table9_mixed_effects[m].n_groups = Cardinality(MixedCountries)
            /\ all_results.table9_mixed_effects[m].n_groups >= 2

(***************************************************************************)
(* C17.  In a completed run each of the six sensitivity sub-analyses has   *)
(* an entry under its own key, a sub-analysis that lacked rows holding a   *)
(* record of that.                                                         *)
(***************************************************************************)
C17_Claim ==
    pc = "Completed" =>
        DOMAIN all_results.table10_sensitivity =
            {"verified_only", "unflagged_only", "odi_only", "t20_only",
             "format_comparison", "fast_vs_bat"}

(***************************************************************************)
(* C20.  The table handed to the stages is never changed by them: while    *)
(* the stages run and after the last one it holds exactly the rows of the  *)
(* input that have a height, with the values they had in the input.        *)
(***************************************************************************)
C20_Theorem ==
    pc \in RunStages \cup {"Completed"} =>
        df_valid = Filter(csv.rows, LAMBDA r : r.height_cm # NA)

\* every stage has run, table8 and table9 on copies with rows removed (the
\* input has a row with a height and no era or year), and the table is whole
C20_Witness ==
    /\ pc = "Completed"
    /\ \E i \in 1..Len(df_valid) : df_valid[i].era = NA /\ df_valid[i].tournament_year = NA
    /\ "anova_table" \in DOMAIN all_results.table8_two_way_anova
    /\ "model1" \in DOMAIN all_results.table9_mixed_effects
    /\ all_results.table9_mixed_effects.model1.n < Len(df_valid)

(***************************************************************************)
(* C18.  Reading the written file back gives the document the run held:    *)
(* the same keys with their types, the same value types, the same values.  *)
(***************************************************************************)
C18_Claim ==
    pc = "Completed" =>
        \E sig \in [DOMAIN all_results.table7_breakpoint -> BOOLEAN] :
            json_load(OUTPUT_JSON) = document(all_results, sig)

(***************************************************************************)
(* C19.  In the written file every flag (significant, converged) is a JSON *)
(* boolean and no value is the text of a numpy wrapper.                    *)
(***************************************************************************)
C19_Claim ==
    pc = "Completed" =>
        \A e \in OUTPUT_JSON :
            e.path[Len(e.path)] \in {"significant", "converged"} =>
                e.leaf.type \in {"true", "false"}

(***************************************************************************)
(* C26.  Every slice in which some candidate year has at least 5 rows on   *)
(* both sides gets a reported breakpoint, whatever F its candidates gave.  *)
(***************************************************************************)
C26_Claim ==
    pc = "table8" /\ HAS_STATSMODELS =>
        \A cat \in {"BAT", "FAST", "ALL"} :
            ValidCandidates(cat) # {} => cat \in DOMAIN all_results.table7_breakpoint

(***************************************************************************)
(* C27.  Wherever an F is computed the denominator degrees of freedom      *)
(* n - 2k are positive, in the candidate being evaluated, in the best held *)
(* and in every reported p-value; and a slice skipped for having fewer     *)
(* than 10 rows has no candidate with at least 5 rows on both sides.       *)
(***************************************************************************)
C27_Theorem ==
    /\ pc = "t7_cand" =>
          LET bp == candidate_years[t7_bp]
          IN ~too_small(pre_of(subset, bp), post_of(subset, bp)) =>
                p_value_of(IntF(0), Len(subset)).dfd > 0
    /\ pc \in {"t7_cand", "t7_report"} /\ best_bp # NA => best_p.dfd > 0
    /\ pc \in SearchStages =>
          \A cat \in DOMAIN results : results[cat].p_value.dfd > 0
    /\ pc \in {"t7_slice", "table8"} /\ slice_too_small(subset) =>
          \A i \in 1..Len(candidate_years) :
              too_small(pre_of(subset, candidate_years[i]),
                        post_of(subset, candidate_years[i]))

\* the FAST slice of 10 rows had an F computed with 6 degrees of freedom and
\* is reported, after the BAT slice of 9 rows, 5 before a candidate and 4
\* after it, was skipped
C27_Witness ==
    /\ pc = "t7_slice" /\ t7_cat = 3
    /\ SliceCount("BAT") = 9 /\ Evaluated("BAT") = {}
    /\ \E bp \in Range(candidate_years) : PreCount("BAT", bp) = 5 /\ PostCount("BAT", bp) = 4
    /\ Len(subset) = 10 /\ Evaluated("FAST") # {}
    /\ "FAST" \in DOMAIN results /\ results["FAST"].p_value.dfd = 6

(***************************************************************************)
(* C28.  The figure's search and the table's search agree on every slice:  *)
(* the panel of a slice presents a breakpoint exactly when the table's     *)
(* search over the same rows reports one, and then the same year and F.    *)
(***************************************************************************)
C28_Claim ==
    HAS_STATSMODELS =>
        \A cat \in DOMAIN drawn :
            IF SliceResult(cat) = <<>>
            THEN drawn[cat].kind # "breakpoint"
            ELSE /\ drawn[cat].kind = "breakpoint"
                 /\ drawn[cat].best_bp = SliceResult(cat)[1].best_breakpoint.year
                 /\ round4(drawn[cat].best_f) = SliceResult(cat)[1].f_statistic

(***************************************************************************)
(* C29.  The dashboard builder reads the results of every completed run to *)
(* the end: each key it reads is there and holds a dict.                   *)
(***************************************************************************)
C29_Claim == pc = "Completed" => build_analysis_stats(all_results) = "ok"


(***************************************************************************)
(* C21: in the table written by the merge step and by the population-      *)
(* matching step, after any sequence of runs of the scripts, every row has *)
(* height_excess = height_cm - pop_height_birth_cohort when both are       *)
(* present and a missing height_excess when either is missing.             *)
(***************************************************************************)
C21_Theorem ==
    csv.exists =>
        \A i \in 1..Len(csv.rows) :
            LET r == csv.rows[i]
            IN IF r.height_cm # NA /\ r.pop_height_birth_cohort # NA
               THEN r.height_excess = Some(Val(r.height_cm) - Val(r.pop_height_birth_cohort))
               ELSE r.height_excess = NA

\* a merge and two matching runs, the second with nothing left to fill:
\* a row filled by the first has its excess, a row still without a
\* population height has none
C21_Witness ==
    /\ tools = <<"merge", "match", "match">>
    /\ csv.exists
    /\ raw.teams[1].playing_xi[4].pop_height_birth_cohort = NA
    /\ csv.rows[4].pop_height_birth_cohort = Some(1780)
    /\ csv.rows[4].height_excess = Some(20)
    /\ csv.rows[7].height_cm = Some(1800)
    /\ csv.rows[7].pop_height_birth_cohort = NA
    /\ csv.rows[7].height_excess = NA


(***************************************************************************)
(* C25: a population-matching run changes pop_height_birth_cohort only on  *)
(* rows where it was missing.  A missing one becomes the population value  *)
(* of the exact (country, birth_year) key when the table has that key,     *)
(* otherwise the value of a nearest birth year of the same country, and it *)
(* stays missing exactly when the birth year is missing or the country has *)
(* no population rows.  No other column but height_excess changes.         *)
(***************************************************************************)
C25_Theorem ==
    [][tools' = Append(tools, "match") =>
        /\ csv'.exists = csv.exists /\ csv'.columns = csv.columns
        /\ Len(csv'.rows) = Len(csv.rows)
        /\ \A i \in 1..Len(csv.rows) :
              LET old == csv.rows[i]
                  new == csv'.rows[i]
                  pop == IF population.exists THEN population.rows ELSE <<>>
                  own == {k \in 1..Len(pop) : Some(pop[k].country_code) = old.country}
                  exact == {k \in own : Some(pop[k].birth_year) = old.birth_year}
                  near == {k \in own : \A j \in own :
                              Abs(pop[k].birth_year - Val(old.birth_year))
                                  <= Abs(pop[j].birth_year - Val(old.birth_year))}
              IN /\ \A c \in DOMAIN old \ {"pop_height_birth_cohort", "height_excess"} :
                        new[c] = old[c]
                 /\ old.pop_height_birth_cohort # NA =>
                        new.pop_height_birth_cohort = old.pop_height_birth_cohort
                 /\ old.pop_height_birth_cohort = NA =>
                        /\ new.pop_height_birth_cohort = NA
                              <=> (old.birth_year = NA \/ own = {})
                        /\ old.birth_year # NA /\ exact # {} =>
                              \E k \in exact :
                                 new.pop_height_birth_cohort = Some(pop[k].mean_height_cm)
                        /\ old.birth_year # NA /\ exact = {} /\ own # {} =>
                              \E k \in near :
                                 new.pop_height_birth_cohort = Some(pop[k].mean_height_cm)]_vars

\* after a merge and a matching run over two squads and the population
\* table of AUS alone: an exact fill, two nearest-year fills, a row without
\* birth year, a present value kept, and a row of a country without rows
C25_Witness ==
    /\ tools = <<"merge", "match">>
    /\ population.exists
    /\ population.rows = <<PopRow("AUS", 1980, 1780), PopRow("AUS", 1986, 1790)>>
    /\ Len(csv.rows) = 22
    /\ \A i \in 4..7 : raw.teams[1].playing_xi[i].pop_height_birth_cohort = NA
    /\ csv.rows[4].birth_year = Some(1980) /\ csv.rows[4].pop_height_birth_cohort = Some(1780)
    /\ csv.rows[5].birth_year = Some(1983) /\ csv.rows[5].pop_height_birth_cohort = Some(1780)
    /\ csv.rows[6].birth_year = Some(1985) /\ csv.rows[6].pop_height_birth_cohort = Some(1790)
    /\ csv.rows[7].birth_year = NA /\ csv.rows[7].pop_height_birth_cohort = NA
    /\ csv.rows[8].pop_height_birth_cohort = Some(1700)
    /\ csv.rows[15].country = Some("IND") /\ csv.rows[15].birth_year = Some(1980)
    /\ csv.rows[15].pop_height_birth_cohort = NA


\* the report is the one of a validation of the file as it is now
Validated == tools # <<>> /\ tools[Len(tools)] = "validate" /\ report # NA

\* the players of a file whose team carries the nation: the rows of its
\* (tournament_id, country) group
country_group(data, nation) ==
    Flatten([t \in 1..Len(data.teams) |->
        IF data.teams[t].nation = nation THEN data.teams[t].playing_xi ELSE <<>>])

(***************************************************************************)
(* C22: a tournament file that passes validation has, for each country of  *)
(* the tournament, exactly eleven players and exactly one WK among them; a *)
(* file that violates this for some country is reported as failed.         *)
(***************************************************************************)
C22_Claim ==
    Validated /\ report.exit_code = 0 =>
        \A t \in 1..Len(raw.teams) :
            LET group == country_group(raw, raw.teams[t].nation)
            IN /\ Len(group) = 11
               /\ Cardinality({i \in 1..Len(group) : group[i].category = "WK"}) = 1

(***************************************************************************)
(* C23: with --strict warnings are errors: a file that draws at least one  *)
(* warning in normal mode fails the strict validation (exit code not 0).   *)
(***************************************************************************)
C23_Claim ==
    Validated /\ report.strict /\ validate_file(raw, FALSE).warnings # {} =>
        report.exit_code # 0

(***************************************************************************)
(* C24: a file in which a player_id occurs more than once, inside one team *)
(* or in two different teams, does not pass validation.                    *)
(***************************************************************************)
C24_Claim ==
    Validated /\ repeats([i \in 1..Len(all_players(raw)) |-> all_players(raw)[i].player_id]) # {} =>
        report.exit_code # 0


(***************************************************************************)
(* C30: applying the height corrections is idempotent.  A pass after an    *)
(* earlier pass over the file changes no player, logs no change and does   *)
(* not write the file; a file with no matching player, or whose matching   *)
(* players are all within 0.1 cm of their corrected height, is not         *)
(* written; and a pass that does not write leaves the file as it was.      *)
(***************************************************************************)
C30_Theorem ==
    [][tools' = Append(tools, "correct") =>
        LET run == passes'[Len(passes')]
            players == all_players(raw)
            settled == \A i \in 1..Len(players) :
                          LET result == match_player(players[i], CORRECTIONS)
                          IN \/ result = NA
                             \/ /\ players[i].height_cm # NA
                                /\ Abs(Val(players[i].height_cm) - Val(result).height) <= 1
        IN /\ Len(passes') = Len(passes) + 1
           /\ ~run.written => raw' = raw
           /\ run.written => run.changes # <<>>
           /\ settled => ~run.written /\ run.changes = <<>>
           /\ passes # <<>> => ~run.written /\ run.changes = <<>> /\ raw' = raw]_vars

\* two passes over the squad with Mohammed Shami at 180.0: the first
\* corrects him to 173.0 and writes the file, the second does nothing
C30_Witness ==
    /\ tools = <<"correct", "correct">>
    /\ Len(passes) = 2
    /\ passes[1].written /\ Len(passes[1].changes) = 1
    /\ passes[1].changes[1].old = 1800 /\ passes[1].changes[1].new = 1730
    /\ ~passes[2].written /\ passes[2].changes = <<>>
    /\ raw.teams[1].playing_xi[2].height_cm = Some(1730)
    /\ raw.teams[1].playing_xi[2].flag = Some("HEIGHT_CONFLICTING")
    /\ raw.teams[1].playing_xi[2].height_source = "multi_source_verified"
    /\ raw.teams[1].playing_xi[2].notes = "VERIFIED: Corrected from 180"

====
